---- MODULE Spec2Model ----
(***************************************************************************)
(* Model of the LLEO orchestration substrate:                              *)
(*   - Framework (core/framework.py): dependency graph, module order and   *)
(*     the sequential module loop of Framework.start;                      *)
(*   - RateLimiter (core/utils/rate_limiter.py): token bucket;             *)
(*   - BaseModule.run_with_retry (core/modules/base.py).                   *)
(* Each component has its own specification (Spec, SpecRL, SpecRetry); the *)
(* variables of the other components are held constant.                    *)
(***************************************************************************)
EXTENDS Integers, Sequences, FiniteSets, TLC

VARIABLES
    \* ---- configuration of one Framework run (inputs)
    cfgModules,      \* the dict literal of _initialize_modules, in insertion order
    cfgDeps,         \* module name -> names returned by get_dependencies()
    \* ---- Framework state
    pc,              \* position inside Framework.start
    modules,         \* self.modules (keys, insertion order)
    graphNodes,      \* self.module_graph nodes, insertion order
    graphEdges,      \* self.module_graph edges <<dependency, dependent>>
    module_states,   \* self.module_states: name -> [status, error]
    module_order,    \* local module_order of start()
    idx,             \* loop index i of start() (1-based)
    brk,             \* the loop was left by `break`
    pendingErr,      \* exception travelling to an except clause
    fatal,           \* exception caught by the outer handler of start()
    running,         \* self.running
    session_data,    \* session_manager.session_data['modules']
    session_file,    \* session.json on disk: <<>> when absent, else <<content>>
    summary,         \* <<>> or <<the module states _print_final_summary printed>>
    \* ---- observation of the run (history)
    setupCalls,      \* name -> number of setup() invocations
    runCalls,        \* name -> number of run() invocations
    executing,       \* modules whose setup()/run() is in progress
    finished,        \* modules whose setup()/run() has returned or raised
    prompts,         \* operator prompts so far: [module, after, answer]
    \* ---- environment and observation of the process
    loaded,          \* the session record _load_session found at startup
    checkedTools,    \* tools verify_tools has checked
    toolPrompts,     \* answers given to the continue / update / exit question
    ioFailed,        \* a write to the output directory has failed
    exit_code,       \* <<>> while the process runs, else <<its exit code>>
    \* ---- RateLimiter configuration (inputs)
    rl_cps,          \* config.calls_per_second
    rl_burst,        \* config.burst_size, in tokens
    \* ---- RateLimiter state
    tokens,          \* self.tokens, in token units (TokenUnit units = 1 token)
    last_update,     \* self.last_update, in ticks
    now,             \* time.monotonic(), in ticks
    lockHolder,      \* task holding self.lock, or NONE
    waiters,         \* tasks queued on self.lock, FIFO
    tpc,             \* task -> "idle" | "waiting" | "sleeping"
    tcall,           \* task -> the acquire call it is in
    total_requests,  \* stats.total_requests
    throttled_requests, \* stats.throttled_requests
    intervals,       \* len(stats.intervals)
    \* ---- observation of the limiter (history)
    firstLog,        \* first attempts of the calls, in the order they ran
    callLog,         \* finished calls: [n, retry, result, attempts, sleeps]
    \* ---- run_with_retry: one call
    rt_max_retries,  \* the max_retries argument
    rt_pc,           \* "call" | "sleep" | "returned" | "raised"
    rt_attempt,      \* loop variable attempt
    rt_clock,        \* seconds since the call started
    rt_wake,         \* end of the current asyncio.sleep
    rt_result,       \* value returned or exception propagated
    rt_outcomes,     \* what each invocation of func did, in order
    rt_sleeps,       \* the sleeps taken, in seconds
    \* ---- ResultCache configuration (input)
    max_size,        \* self.max_size
    \* ---- ResultCache state
    cache,           \* self.cache: entries [key, data, timestamp, ttl], insertion order
    cacheLock,       \* task holding self._lock, or NONE
    cacheWaiters,    \* tasks queued on self._lock, FIFO
    cpc,             \* task -> "idle" | "waiting" | "locked"
    cop,             \* task -> the get/set call it is in
    cacheNow,        \* datetime.now(), in ticks
    \* ---- observation of the cache (history)
    cacheCalls,      \* number of get/set calls so far
    lastSet,         \* key -> <<>> or <<the entry of the latest set of the key>>
    cacheLog,        \* <<>> or <<the latest finished call>>
    \* ---- SessionManager: the object and the output directory
    smData,          \* self.session_data['modules']
    smResults,       \* self.module_results
    diskSession,     \* session.json: <<>> when absent, else <<its modules>>
    diskResults,     \* module -> <<>> or <<content of its results file>>
    diskArchive,     \* archive/: the output directories moved there, in order
    \* ---- observation of the SessionManager (history)
    smCalls,         \* number of save_results / get_results calls so far
    smRestarts,      \* number of restarts so far
    lastSave,        \* module -> <<>> or <<the latest save_results of it>>
    smLog,           \* <<>> or <<the latest call and what it returned>>
    \* ---- execute_tool: the call in progress
    et_pc,           \* "idle" | "check" | "spawn" | "communicate" | "failed" | "wait"
    et_cmd,          \* cmd: "empty" or "tool"
    et_resolvable,   \* cmd[0] is on the search path
    et_attempt,      \* tenacity's attempt number
    et_clock,        \* seconds since the call started
    et_wake,         \* end of tenacity's current wait
    et_spawned,      \* tool processes spawned by the call
    et_proc,         \* the spawned process: none, running, exit0, exit1, killed
    \* ---- observation of execute_tool (history)
    et_calls,        \* number of execute_tool calls so far
    et_log,          \* finished calls, in order
    \* ---- ToolExecutor.run_tool: calls by the tasks sharing the executor
    xt_pc,           \* task -> "idle" | "acquiring" | "entered" | "running"
    xt_acq,          \* task -> what acquire returned to __aenter__
    xt_proc,         \* task -> a process was spawned for the call
    xt_calls,        \* run_tool calls so far
    \* ---- DiscoveryModule.run: one run of the module
    mg_installed,    \* tools with tool_status[tool]['installed']
    mg_out,          \* tool -> the subdomains its task returns
    mg_pc,           \* "start" | "await" | "done"
    mg_tasks,        \* tool_tasks: the tools whose tasks were created
    mg_completed,    \* the tools in the order their tasks completed
    mg_i,            \* position of the await loop in tool_tasks
    mg_acc,          \* results['subdomains'] while the loop runs
    mg_saved,        \* processed/subdomains.txt was written
    mg_ret,          \* the 'subdomains' list run() returns
    \* ---- PerformanceMonitor
    monitoring_tasks, \* modules with a monitoring task
    metrics,         \* module -> <<>> or <<its ModuleMetrics>>
    tool_metrics,    \* tool -> <<>> or <<its ToolMetrics>>
    mon_now,         \* datetime.now(), in seconds
    mon_calls,       \* monitor operations called so far
    \* ---- observation of the monitor (history)
    tm_retried,      \* tool -> record_tool_retry calls since its last start
    tm_stops,        \* tool -> the success flags of its stops since its last start
    \* ---- tool verification
    required_tools,  \* the requirement table: tool -> minimum version
    verifier,        \* which verification ran last: "none", "framework", "checker"
    results,         \* local results of that verification
    \* ---- Framework.cleanup
    cl_pc,           \* position inside start()'s finally clause and cleanup()
    cl_ending,       \* how the try body of start() was left
    cl_modules,      \* self.modules (keys, insertion order)
    cl_tasks,        \* module -> its running_tasks
    cl_i,            \* index of the loop over self.modules.values()
    cl_outcome,      \* module -> what its cleanup() did
    cl_monitoring,   \* performance_monitor.monitoring
    cl_save,         \* the save_session() of cleanup(): "none", "saved", "failed"
    cl_running,      \* self.running
    \* ---- ToolExecutor.run_with_retry
    tr_pc,           \* "idle", "run", "sleep", "done"
    tr_max,          \* max_retries
    tr_delay,        \* retry_delay
    tr_attempt,      \* loop variable attempt
    tr_results,      \* the results of the run_tool calls so far
    tr_sleeps,       \* the asyncio.sleep calls so far
    tr_ret,          \* <<>> or <<the returned ToolResult>>
    \* ---- core.utils.session.SessionManager
    ss_session,      \* self.session['modules']: module -> status
    ss_file,         \* session.json: <<>> when absent, else <<its content>>
    ss_calls,        \* number of calls so far
    ss_log,          \* <<>> or <<the latest should_run_module call>>
    \* ---- EventBus
    eb_kind,         \* "utils": core.utils.event_bus, "base": core.modules.base
    eb_handlers,     \* self.handlers / self.subscribers: event -> handlers
    eb_removed,      \* event -> handlers unsubscribed and not subscribed since
    eb_calls,        \* number of calls so far
    eb_log,          \* <<>> or <<the emit that has just returned>>
    \* ---- DistributedExecutor
    dx_pc,           \* start(): "new", or the monitor at "check" or "sleep"
    dx_sched,        \* _start_task_scheduler: "off", "get", "executing"
    dx_workers,      \* self.workers, in insertion order
    dx_tasks,        \* self.tasks, in order of submission
    dx_queue,        \* self._task_queue: task numbers
    dx_clock,        \* the time, in monitor periods
    dx_wake          \* the time at which the monitor's sleep ends

fwVars == <<cfgModules, cfgDeps, pc, modules, graphNodes, graphEdges,
            module_states, module_order, idx, brk, pendingErr, fatal, running,
            session_data, session_file, summary,
            setupCalls, runCalls, executing, finished, prompts,
            loaded, checkedTools, toolPrompts, ioFailed, exit_code>>

\* environment and observation variables most steps of start() leave alone
fwAux == <<loaded, checkedTools, toolPrompts, ioFailed, exit_code>>

rlVars == <<rl_cps, rl_burst, tokens, last_update, now, lockHolder, waiters,
            tpc, tcall, total_requests, throttled_requests, intervals,
            firstLog, callLog>>

rtVars == <<rt_max_retries, rt_pc, rt_attempt, rt_clock, rt_wake, rt_result,
            rt_outcomes, rt_sleeps>>

cacheVars == <<max_size, cache, cacheLock, cacheWaiters, cpc, cop, cacheNow,
               cacheCalls, lastSet, cacheLog>>

\* the utility components besides the rate limiter and run_with_retry
smVars == <<smData, smResults, diskSession, diskResults, diskArchive, smCalls,
            smRestarts, lastSave, smLog>>

etVars == <<et_pc, et_cmd, et_resolvable, et_attempt, et_clock, et_wake,
            et_spawned, et_proc, et_calls, et_log>>

\* ToolExecutor.run_tool
xtVars == <<xt_pc, xt_acq, xt_proc, xt_calls>>

\* DiscoveryModule.run
mgVars == <<mg_installed, mg_out, mg_pc, mg_tasks, mg_completed, mg_i,
            mg_acc, mg_saved, mg_ret>>

\* PerformanceMonitor
monVars == <<monitoring_tasks, metrics, tool_metrics, mon_now, mon_calls,
             tm_retried, tm_stops>>

\* tool verification
vtVars == <<required_tools, verifier, results>>

\* Framework.cleanup
clVars == <<cl_pc, cl_ending, cl_modules, cl_tasks, cl_i, cl_outcome,
            cl_monitoring, cl_save, cl_running>>

\* ToolExecutor.run_with_retry
trVars == <<tr_pc, tr_max, tr_delay, tr_attempt, tr_results, tr_sleeps, tr_ret>>

\* core.utils.session.SessionManager
ssVars == <<ss_session, ss_file, ss_calls, ss_log>>

\* the event buses
ebVars == <<eb_kind, eb_handlers, eb_removed, eb_calls, eb_log>>

\* DistributedExecutor
dxVars == <<dx_pc, dx_sched, dx_workers, dx_tasks, dx_queue, dx_clock, dx_wake>>

lateVars == <<clVars, trVars, ssVars, ebVars, dxVars>>

extVars == <<xtVars, mgVars, monVars, vtVars, lateVars>>

utilVars == <<cacheVars, smVars, etVars, extVars>>

earlyVars == <<fwVars, rlVars, rtVars, cacheVars, smVars, etVars, xtVars, mgVars,
               monVars, vtVars>>

trRest == <<earlyVars, clVars, ssVars, ebVars, dxVars>>

ssRest == <<earlyVars, clVars, trVars, ebVars, dxVars>>

ebRest == <<earlyVars, clVars, trVars, ssVars, dxVars>>

dxRest == <<earlyVars, clVars, trVars, ssVars, ebVars>>

clRest == <<earlyVars, trVars, ssVars, ebVars, dxVars>>

vars == <<fwVars, rlVars, rtVars, utilVars>>

NONE == "none"

(***************************************************************************)
(* Module names.  The registered modules are a prefix of NameOrder; a name *)
(* outside the prefix that occurs in a dependency list is an unregistered  *)
(* dependency.                                                             *)
(***************************************************************************)
Names == {"A", "B", "C"}
NameOrder == <<"A", "B", "C">>

SeqRange(s) == {s[i] : i \in 1..Len(s)}

\* get_dependencies() returns a list; its elements in list order
DepList(deps, name) == SelectSeq(NameOrder, LAMBDA d : d \in deps[name])

(***************************************************************************)
(* The dependency graph (networkx.DiGraph)                                 *)
(***************************************************************************)
RECURSIVE AddNodes(_, _)
\* DiGraph.add_edge(dep, name) adds the node dep when it is not yet present
AddNodes(nodes, ds) ==
    IF ds = <<>> THEN nodes
    ELSE IF Head(ds) \in SeqRange(nodes) THEN AddNodes(nodes, Tail(ds))
         ELSE AddNodes(Append(nodes, Head(ds)), Tail(ds))

RECURSIVE EdgeNodes(_, _, _)
\* node insertion order after the edge loop of _build_module_graph
EdgeNodes(nodes, mods, deps) ==
    IF mods = <<>> THEN nodes
    ELSE EdgeNodes(AddNodes(nodes, DepList(deps, Head(mods))), Tail(mods), deps)

BuildNodes(mods, deps) == EdgeNodes(mods, mods, deps)

\* mutant: add_edge(name, dep), the edge drawn from dependent to dependency
BuildEdgesReversed(mods, deps) ==
    {e \in Names \X Names : e[1] \in SeqRange(mods) /\ e[2] \in deps[e[1]]}

BuildEdges(mods, deps) ==
    {e \in Names \X Names : e[2] \in SeqRange(mods) /\ e[1] \in deps[e[2]]}

\* successors of a node, in adjacency (edge insertion) order
Successors(nodes, edges, v) == SelectSeq(nodes, LAMBDA c : <<v, c>> \in edges)

RECURSIVE ReachFrom(_, _, _)
ReachFrom(edges, S, k) ==
    IF k = 0 THEN S
    ELSE ReachFrom(edges, S \cup {e[2] : e \in {f \in edges : f[1] \in S}}, k - 1)

\* mutant: the cycle check only looks for self-dependencies
HasCycleSelfOnly(nodes, edges) ==
    \E v \in SeqRange(nodes) : <<v, v>> \in edges

\* nx.find_cycle finds a cycle: some node reaches itself along >= 1 edge
HasCycle(nodes, edges) ==
    \E v \in SeqRange(nodes) :
        v \in ReachFrom(edges, {e[2] : e \in {f \in edges : f[1] = v}}, Len(nodes))

InDegree(edges, v) == Cardinality({e \in edges : e[2] = v})

RECURSIVE Concat(_, _, _)
\* the children visited while one generation is processed, in visiting order
Concat(nodes, edges, gen) ==
    IF gen = <<>> THEN <<>>
    ELSE Successors(nodes, edges, Head(gen)) \o Concat(nodes, edges, Tail(gen))

RECURSIVE Decrement(_, _, _)
\* indegree_map[child] -= 1 for each visited child; a child reaching 0 joins
\* the next generation
Decrement(indeg, zero, children) ==
    IF children = <<>> THEN [indeg |-> indeg, zero |-> zero]
    ELSE LET c == Head(children)
             d == indeg[c] - 1
         IN  Decrement([indeg EXCEPT ![c] = d],
                       IF d = 0 THEN Append(zero, c) ELSE zero,
                       Tail(children))

RECURSIVE Generations(_, _, _, _, _)
Generations(nodes, edges, indeg, zero, out) ==
    IF zero = <<>>
    THEN [ok |-> \A v \in SeqRange(nodes) : indeg[v] = 0, order |-> out]
    ELSE LET r == Decrement(indeg, <<>>, Concat(nodes, edges, zero))
         IN  Generations(nodes, edges, r.indeg, r.zero, out \o zero)

\* mutant: the nodes in insertion order, the edges ignored
TopologicalSortInsertionOrder(nodes, edges) ==
    [ok |-> TRUE, order |-> nodes]

\* list(nx.topological_sort(G)): ok = FALSE stands for NetworkXUnfeasible
TopologicalSort(nodes, edges) ==
    Generations(nodes, edges,
                [v \in SeqRange(nodes) |-> InDegree(edges, v)],
                SelectSeq(nodes, LAMBDA v : InDegree(edges, v) = 0),
                <<>>)

(***************************************************************************)
(* Framework.start                                                         *)
(***************************************************************************)
Statuses == {"pending", "running", "completed", "error"}

\* _load_session: the modules of session.json, or a fresh record
LoadSession(file) == IF file = <<>> THEN <<>> ELSE file[1]

\* what an earlier run against the same target left in session.json: nothing,
\* the first module completed, or every module completed
PriorSessions(registered) == {{}, {"A"}, registered}

\* session.json of a run that completed the modules in done
CompletedRecord(done) ==
    [m \in done |-> [status |-> "completed", results_file |-> TRUE, error |-> NONE]]

FwInit ==
    /\ \E k \in 1..Len(NameOrder) : cfgModules = SubSeq(NameOrder, 1, k)
    /\ cfgDeps \in [SeqRange(cfgModules) -> SUBSET Names]
    /\ pc = "verify"
    /\ modules = <<>>
    /\ graphNodes = <<>>
    /\ graphEdges = {}
    /\ module_states = <<>>
    /\ module_order = <<>>
    /\ idx = 1
    /\ brk = FALSE
    /\ pendingErr = NONE
    /\ fatal = NONE
    /\ running = FALSE
    /\ \E done \in PriorSessions(SeqRange(cfgModules)) :
          session_file = IF done = {} THEN <<>> ELSE <<CompletedRecord(done)>>
    /\ session_data = LoadSession(session_file)
    /\ loaded = session_data
    /\ summary = <<>>
    /\ setupCalls = [n \in Names |-> 0]
    /\ runCalls = [n \in Names |-> 0]
    /\ executing = {}
    /\ finished = {}
    /\ prompts = <<>>
    /\ checkedTools = {}
    /\ toolPrompts = {}
    /\ ioFailed = FALSE
    /\ exit_code = <<>>

\* the module the loop of start() is at
CurName == module_order[idx]

SetStatus(name, st) == [module_states EXCEPT ![name].status = st]

\* dict item assignment d[k] = v
Put(d, k, v) == [x \in DOMAIN d \cup {k} |-> IF x = k THEN v ELSE d[x]]

\* tools required by the modules registered in self.modules
ToolsOf(name) == {"tool_" \o name}
RequiredTools(mods) == UNION {ToolsOf(m) : m \in SeqRange(mods)}

\* verify_tools(): checks the tools of self.modules; with issues the operator
\* picks 1 (continue), 2 (update and verify again) or 3 (exit)
VerifyTools ==
    /\ pc = "verify"
    /\ checkedTools' = checkedTools \cup RequiredTools(modules)
    /\ \E has_issues \in (IF RequiredTools(modules) = {} THEN {FALSE} ELSE BOOLEAN) :
          IF has_issues
          THEN \E response \in {"1", "2", "3"} :
                  /\ toolPrompts' = toolPrompts \cup {response}
                  /\ pc' = CASE response = "3" -> "cleanup"
                              [] response = "2" -> "verify"
                              [] OTHER -> "init"
          ELSE /\ pc' = "init"
               /\ UNCHANGED toolPrompts
    /\ UNCHANGED <<rlVars, rtVars, utilVars, loaded, ioFailed, exit_code,
                   cfgModules, cfgDeps, modules, graphNodes, graphEdges,
                   module_states, module_order, idx, brk, pendingErr, fatal,
                   running, session_data, session_file, summary,
                   setupCalls, runCalls, executing, finished, prompts>>

\* start() lines 235-241 and _initialize_modules / _build_module_graph
InitializeModules ==
    /\ pc = "init"
    /\ running' = TRUE
    /\ modules' = cfgModules
    /\ graphNodes' = BuildNodes(cfgModules, cfgDeps)
    /\ graphEdges' = BuildEdges(cfgModules, cfgDeps)
    /\ IF HasCycle(graphNodes', graphEdges')
       THEN /\ fatal' = "ModuleDependencyError"
            /\ pc' = "cleanup"
            /\ UNCHANGED module_states
       ELSE /\ module_states' =
                  [n \in SeqRange(cfgModules) |-> [status |-> "pending", error |-> NONE]]
            /\ pc' = "order"
            /\ UNCHANGED fatal
    /\ UNCHANGED <<rlVars, rtVars, utilVars, fwAux, cfgModules, cfgDeps, module_order, idx, brk, pendingErr,
                   session_data, session_file, summary,
                   setupCalls, runCalls, executing, finished, prompts>>

\* _get_module_order
GetModuleOrder ==
    /\ pc = "order"
    /\ LET r == TopologicalSort(graphNodes, graphEdges)
       IN  IF r.ok
           THEN /\ module_order' = r.order
                /\ pc' = "loop"
                /\ UNCHANGED fatal
           ELSE /\ fatal' = "ModuleDependencyError"
                /\ pc' = "cleanup"
                /\ UNCHANGED module_order
    /\ UNCHANGED <<rlVars, rtVars, utilVars, fwAux, cfgModules, cfgDeps, modules, graphNodes, graphEdges,
                   module_states, idx, brk, pendingErr, running,
                   session_data, session_file, summary,
                   setupCalls, runCalls, executing, finished, prompts>>

\* loop head of start(): module = self.modules[name]; status 'running';
\* module.setup() is awaited
BeginModule ==
    /\ pc = "loop"
    /\ idx <= Len(module_order)
    /\ IF CurName \in SeqRange(modules)
       THEN /\ module_states' = SetStatus(CurName, "running")
            /\ setupCalls' = [setupCalls EXCEPT ![CurName] = @ + 1]
            /\ executing' = executing \cup {CurName}
            /\ pc' = "setup"
            /\ UNCHANGED fatal
       ELSE /\ fatal' = "KeyError"
            /\ pc' = "cleanup"
            /\ UNCHANGED <<module_states, setupCalls, executing>>
    /\ UNCHANGED <<rlVars, rtVars, utilVars, fwAux, cfgModules, cfgDeps, modules, graphNodes, graphEdges,
                   module_order, idx, brk, pendingErr, running,
                   session_data, session_file, summary,
                   runCalls, finished, prompts>>

\* the for loop of start() is exhausted
LoopDone ==
    /\ pc = "loop"
    /\ idx > Len(module_order)
    /\ pc' = "finalize"
    /\ UNCHANGED <<rlVars, rtVars, utilVars, fwAux, cfgModules, cfgDeps, modules, graphNodes, graphEdges,
                   module_states, module_order, idx, brk, pendingErr, fatal,
                   running, session_data, session_file, summary,
                   setupCalls, runCalls, executing, finished, prompts>>

\* module.setup() returns or raises; on return start_monitoring_module and
\* module.run() follow
SetupModule ==
    /\ pc = "setup"
    /\ \E ok \in BOOLEAN :
          IF ok
          THEN /\ pc' = "run"
               /\ UNCHANGED <<pendingErr, executing, finished>>
          ELSE /\ pendingErr' = "setup failed"
               /\ executing' = executing \ {CurName}
               /\ finished' = finished \cup {CurName}
               /\ pc' = "except"
    /\ UNCHANGED <<rlVars, rtVars, utilVars, fwAux, cfgModules, cfgDeps, modules, graphNodes, graphEdges,
                   module_states, module_order, idx, brk, fatal, running,
                   session_data, session_file, summary,
                   setupCalls, runCalls, prompts>>

\* SessionManager.save_results: the record written for the module and what
\* reaches session.json (save_session swallows a failed write)
SaveResults(name, write_ok, session_ok) ==
    LET rec == IF write_ok
               THEN [status |-> "completed", results_file |-> TRUE, error |-> NONE]
               ELSE [status |-> "error", results_file |-> FALSE, error |-> "io"]
        data == Put(session_data, name, rec)
    IN  [data |-> data, file |-> IF session_ok THEN <<data>> ELSE session_file]

\* results = await module.run() and the rest of the try body
RunModule ==
    /\ pc = "run"
    /\ runCalls' = [runCalls EXCEPT ![CurName] = @ + 1]
    /\ executing' = executing \ {CurName}
    /\ finished' = finished \cup {CurName}
    /\ \E out \in {"results", "empty", "raise"} :
          CASE out = "results" ->
                 /\ \E write_ok \in BOOLEAN, session_ok \in BOOLEAN :
                       /\ session_data' = SaveResults(CurName, write_ok, session_ok).data
                       /\ session_file' = SaveResults(CurName, write_ok, session_ok).file
                       /\ ioFailed' = (ioFailed \/ ~write_ok \/ ~session_ok)
                 /\ module_states' = SetStatus(CurName, "completed")
                 /\ pc' = IF idx < Len(module_order) THEN "prompt" ELSE "finally"
                 /\ UNCHANGED pendingErr
            [] out = "empty" ->
                 /\ pc' = "finally"
                 /\ UNCHANGED <<module_states, session_data, session_file,
                                pendingErr, ioFailed>>
            [] out = "raise" ->
                 /\ pendingErr' = "run failed"
                 /\ pc' = "except"
                 /\ UNCHANGED <<module_states, session_data, session_file, ioFailed>>
    /\ UNCHANGED <<rlVars, rtVars, utilVars, loaded, checkedTools, toolPrompts,
                   exit_code, cfgModules, cfgDeps, modules, graphNodes, graphEdges,
                   module_order, idx, brk, fatal, running, summary,
                   setupCalls, prompts>>

\* mutant: the error text is not stored
HandleErrorNoText ==
    /\ pc = "except"
    /\ module_states' = SetStatus(CurName, "error")
    /\ pendingErr' = NONE
    /\ pc' = "prompt_err"
    /\ UNCHANGED <<rlVars, rtVars, utilVars, fwAux, cfgModules, cfgDeps, modules, graphNodes, graphEdges,
                   module_order, idx, brk, fatal, running,
                   session_data, session_file, summary,
                   setupCalls, runCalls, executing, finished, prompts>>

\* except Exception as e: status 'error', error text recorded
HandleError ==
    /\ pc = "except"
    /\ module_states' = [module_states EXCEPT ![CurName] =
                            [status |-> "error", error |-> pendingErr]]
    /\ pendingErr' = NONE
    /\ pc' = "prompt_err"
    /\ UNCHANGED <<rlVars, rtVars, utilVars, fwAux, cfgModules, cfgDeps, modules, graphNodes, graphEdges,
                   module_order, idx, brk, fatal, running,
                   session_data, session_file, summary,
                   setupCalls, runCalls, executing, finished, prompts>>

\* mutant: the answer is read but the loop never breaks
PromptContinueNoBreak ==
    /\ pc \in {"prompt", "prompt_err"}
    /\ \E answer \in {"y", "n"} :
          prompts' = Append(prompts,
                 [module |-> CurName,
                  after |-> IF pc = "prompt" THEN "completed" ELSE "error",
                  answer |-> answer])
    /\ brk' = FALSE
    /\ pc' = "finally"
    /\ UNCHANGED <<rlVars, rtVars, utilVars, fwAux, cfgModules, cfgDeps, modules, graphNodes, graphEdges,
                   module_states, module_order, idx, pendingErr, fatal, running,
                   session_data, session_file, summary,
                   setupCalls, runCalls, executing, finished>>

\* input("... Continue to next module? (y/n)"): anything but y breaks
PromptContinue ==
    /\ pc \in {"prompt", "prompt_err"}
    /\ \E answer \in {"y", "n"} :
          /\ prompts' = Append(prompts,
                 [module |-> CurName,
                  after |-> IF pc = "prompt" THEN "completed" ELSE "error",
                  answer |-> answer])
          /\ brk' = (answer # "y")
    /\ pc' = "finally"
    /\ UNCHANGED <<rlVars, rtVars, utilVars, fwAux, cfgModules, cfgDeps, modules, graphNodes, graphEdges,
                   module_states, module_order, idx, pendingErr, fatal, running,
                   session_data, session_file, summary,
                   setupCalls, runCalls, executing, finished>>

\* finally: stop_monitoring_module, pbar.update; then next iteration or break
FinallyModule ==
    /\ pc = "finally"
    /\ IF brk
       THEN pc' = "finalize" /\ UNCHANGED idx
       ELSE pc' = "loop" /\ idx' = idx + 1
    /\ UNCHANGED <<rlVars, rtVars, utilVars, fwAux, cfgModules, cfgDeps, modules, graphNodes, graphEdges,
                   module_states, module_order, brk, pendingErr, fatal, running,
                   session_data, session_file, summary,
                   setupCalls, runCalls, executing, finished, prompts>>

\* save_metrics and session_manager.save_session after the loop
Finalize ==
    /\ pc = "finalize"
    /\ \E session_ok \in BOOLEAN :
          /\ session_file' = IF session_ok THEN <<session_data>> ELSE session_file
          /\ ioFailed' = (ioFailed \/ ~session_ok)
    /\ pc' = "summary"
    /\ UNCHANGED <<rlVars, rtVars, utilVars, loaded, checkedTools, toolPrompts,
                   exit_code, cfgModules, cfgDeps, modules, graphNodes, graphEdges,
                   module_states, module_order, idx, brk, pendingErr, fatal,
                   running, session_data, summary,
                   setupCalls, runCalls, executing, finished, prompts>>

\* _print_final_summary: one line per entry of module_states
PrintFinalSummary ==
    /\ pc = "summary"
    /\ summary' = <<module_states>>
    /\ pc' = "cleanup"
    /\ UNCHANGED <<rlVars, rtVars, utilVars, fwAux, cfgModules, cfgDeps, modules, graphNodes, graphEdges,
                   module_states, module_order, idx, brk, pendingErr, fatal,
                   running, session_data, session_file,
                   setupCalls, runCalls, executing, finished, prompts>>

\* finally: await self.cleanup()
Cleanup ==
    /\ pc = "cleanup"
    /\ \E session_ok \in BOOLEAN :
          /\ session_file' = IF session_ok THEN <<session_data>> ELSE session_file
          /\ ioFailed' = (ioFailed \/ ~session_ok)
    /\ running' = FALSE
    /\ pc' = "done"
    /\ UNCHANGED <<rlVars, rtVars, utilVars, loaded, checkedTools, toolPrompts,
                   exit_code, cfgModules, cfgDeps, modules, graphNodes, graphEdges,
                   module_states, module_order, idx, brk, pendingErr, fatal,
                   session_data, summary,
                   setupCalls, runCalls, executing, finished, prompts>>

\* SIGINT or SIGTERM while setup() or run() of a module is awaited:
\* _signal_handler calls sys.exit(0); SystemExit is no Exception, so neither
\* except clause of start() runs, only the finally clauses
Interrupt ==
    /\ pc \in {"setup", "run"}
    /\ fatal' = "SystemExit"
    /\ executing' = executing \ {CurName}
    /\ finished' = finished \cup {CurName}
    /\ pc' = "cleanup"
    /\ UNCHANGED <<rlVars, rtVars, utilVars, fwAux, cfgModules, cfgDeps, modules,
                   graphNodes, graphEdges, module_states, module_order, idx, brk,
                   pendingErr, running, session_data, session_file, summary,
                   setupCalls, runCalls, prompts>>

\* what leaves start(): SystemExit; every Exception is logged at line 309-310
Escaped(f) == IF f = "SystemExit" THEN f ELSE NONE

\* lleo.py main: sys.exit(0) of the signal handler, sys.exit(1) for any other
\* exception reaching main, 0 when main returns
ExitCode(f) ==
    CASE Escaped(f) = NONE -> 0
      [] Escaped(f) = "SystemExit" -> 0
      [] OTHER -> 1

\* asyncio.run(run_framework(framework)) is over and the process exits
ExitProcess ==
    /\ pc = "done"
    /\ exit_code = <<>>
    /\ exit_code' = <<ExitCode(fatal)>>
    /\ UNCHANGED <<rlVars, rtVars, utilVars, loaded, checkedTools,
                   toolPrompts, ioFailed, pc, cfgModules, cfgDeps, modules,
                   graphNodes, graphEdges, module_states, module_order, idx, brk,
                   pendingErr, fatal, running, session_data, session_file, summary,
                   setupCalls, runCalls, executing, finished, prompts>>

FwNext ==
    \/ VerifyTools
    \/ InitializeModules
    \/ GetModuleOrder
    \/ BeginModule
    \/ LoopDone
    \/ SetupModule
    \/ RunModule
    \/ HandleError
    \/ PromptContinue
    \/ FinallyModule
    \/ Finalize
    \/ PrintFinalSummary
    \/ Cleanup
    \/ Interrupt
    \/ ExitProcess



(***************************************************************************)
(* RateLimiter                                                             *)
(* Time is counted in ticks (TicksPerSecond per second) and tokens in      *)
(* token units (TokenUnit per token), so that the refill of one tick,      *)
(* plain or boosted by 1.5, is a whole number of units:                    *)
(*   refill(dt) = dt * calls_per_second * 2 units, boosted dt * cps * 3.   *)
(* A wait time is kept exactly, as a number of 1/(2*cps) ticks.            *)
(***************************************************************************)
Tasks == {"t1", "t2"}

MaxCps == 2           \* largest calls_per_second tried
MaxBurst == 2         \* largest burst_size argument tried
MaxTokens == 2        \* largest n of acquire(n) tried
MaxCalls == 3         \* acquire calls per behaviour
MaxTime == 1          \* ticks the clock advances on its own
TicksPerSecond == 2   \* clock granularity

MaxRetries == 3       \* RateLimitConfig.max_retries
TokenUnit == 2 * TicksPerSecond
RetryDelay == TicksPerSecond   \* RateLimitConfig.retry_delay = 1.0 s, in ticks

Min(a, b) == IF a <= b THEN a ELSE b

\* burst_size or calls_per_second  (arg = 0 stands for None)
BurstSize(cps, arg) == IF arg = 0 THEN cps ELSE arg

\* mutant: the refill is not clamped to burst_size
AddNewTokensNoClamp(tok, time_passed, cps, burst) ==
    tok + (IF 2 * tok < burst * TokenUnit
           THEN time_passed * cps * 3
           ELSE time_passed * cps * 2)

\* mutant: the refill is never boosted
AddNewTokensNoBoost(tok, time_passed, cps, burst) ==
    Min(burst * TokenUnit, tok + time_passed * cps * 2)

\* _add_new_tokens: the token count after the lazy refill
AddNewTokens(tok, time_passed, cps, burst) ==
    LET new_tokens == IF 2 * tok < burst * TokenUnit
                      THEN time_passed * cps * 3
                      ELSE time_passed * cps * 2
    IN  Min(burst * TokenUnit, tok + new_tokens)

\* mutant: a granted request leaves the bucket as it was
DebitNothing(tok, n) == tok

\* self.tokens -= tokens
Debit(tok, n) == tok - n * TokenUnit

\* if self.tokens >= tokens
EnoughTokens(tok, n) == tok >= n * TokenUnit

\* _time_to_tokens, as a number of 1/(2*cps) ticks: needed / calls_per_second
TimeToTokens(tok, n) ==
    LET needed == n * TokenUnit - tok
    IN  IF needed <= 0 THEN 0 ELSE needed

\* min(wait_time, self.config.retry_delay), in 1/(2*cps) ticks
SleepTime(wait_time, cps) == Min(wait_time, RetryDelay * 2 * cps)

\* the tick at which asyncio.sleep(d) has elapsed
WakeTick(t0, sleep, cps) == t0 + (sleep + 2 * cps - 1) \div (2 * cps)

\* range(self.config.max_retries if retry else 1)
AttemptLimit(retry) == IF retry THEN MaxRetries ELSE 1

IdleCall == [n |-> 0, retry |-> TRUE, attempt |-> 0, sleeps |-> <<>>, wake |-> 0]

RlInit ==
    /\ rl_cps \in 1..MaxCps
    /\ \E arg \in 0..MaxBurst : rl_burst = BurstSize(rl_cps, arg)
    /\ tokens = rl_burst * TokenUnit
    /\ last_update = 0
    /\ now = 0
    /\ lockHolder = NONE
    /\ waiters = <<>>
    /\ tpc = [t \in Tasks |-> "idle"]
    /\ tcall = [t \in Tasks |-> IdleCall]
    /\ total_requests = 0
    /\ throttled_requests = 0
    /\ intervals = 0
    /\ firstLog = <<>>
    /\ callLog = <<>>

\* the record of a finished call
Finished(t, result, attempts) ==
    [n |-> tcall[t].n, retry |-> tcall[t].retry, result |-> result,
     attempts |-> attempts, sleeps |-> tcall[t].sleeps]

\* acquire(tokens, retry) is called: total_requests += 1, then the task
\* queues for self.lock
Acquire(t) ==
    /\ tpc[t] = "idle"
    /\ total_requests < MaxCalls
    /\ \E n \in 1..MaxTokens, retry \in BOOLEAN :
          tcall' = [tcall EXCEPT ![t] = [IdleCall EXCEPT !.n = n, !.retry = retry]]
    /\ total_requests' = total_requests + 1
    /\ tpc' = [tpc EXCEPT ![t] = "waiting"]
    /\ waiters' = Append(waiters, t)
    /\ UNCHANGED <<rl_cps, rl_burst, tokens, last_update, now, lockHolder,
                   throttled_requests, intervals, firstLog, callLog>>
    /\ UNCHANGED <<fwVars, rtVars, utilVars>>

\* one attempt under the lock: refill, then grant, sleep (holding the lock)
\* or deny
AttemptCore(t) ==
    /\ tpc[t] = "waiting"
    /\ lockHolder = NONE
    /\ waiters # <<>> /\ Head(waiters) = t
    /\ waiters' = Tail(waiters)
    /\ last_update' = now
    /\ LET c == tcall[t]
           tok == AddNewTokens(tokens, now - last_update, rl_cps, rl_burst)
           wait_time == TimeToTokens(tok, c.n)
           sleep == SleepTime(wait_time, rl_cps)
           granted == EnoughTokens(tok, c.n) \/ wait_time <= 0
       IN  /\ firstLog' = IF c.attempt = 0
                          THEN Append(firstLog, [n |-> c.n, time |-> now,
                                                 granted |-> granted])
                          ELSE firstLog
           /\ IF granted
              THEN /\ tokens' = Debit(tok, c.n)
                   /\ intervals' = IF EnoughTokens(tok, c.n)
                                   THEN intervals + 1 ELSE intervals
                   /\ callLog' = Append(callLog, Finished(t, "True", c.attempt + 1))
                   /\ tpc' = [tpc EXCEPT ![t] = "idle"]
                   /\ tcall' = [tcall EXCEPT ![t] = IdleCall]
                   /\ UNCHANGED <<throttled_requests, lockHolder>>
              ELSE /\ tokens' = tok
                   /\ throttled_requests' = throttled_requests + 1
                   /\ UNCHANGED intervals
                   /\ IF c.attempt < MaxRetries - 1
                      THEN /\ lockHolder' = t
                           /\ tpc' = [tpc EXCEPT ![t] = "sleeping"]
                           /\ tcall' = [tcall EXCEPT
                                  ![t].sleeps = Append(@, [slept |-> sleep, had |-> tok]),
                                  ![t].wake = WakeTick(now, sleep, rl_cps)]
                           /\ UNCHANGED callLog
                      ELSE /\ callLog' = Append(callLog,
                                               Finished(t, "False", c.attempt + 1))
                           /\ tpc' = [tpc EXCEPT ![t] = "idle"]
                           /\ tcall' = [tcall EXCEPT ![t] = IdleCall]
                           /\ UNCHANGED lockHolder
    /\ UNCHANGED <<rl_cps, rl_burst, now, total_requests>>

Attempt(t) ==
    /\ AttemptCore(t)
    /\ UNCHANGED <<fwVars, rtVars, utilVars>>

\* asyncio.sleep returns: `continue` leaves the lock; the next iteration
\* queues for the lock again, or the loop is exhausted and acquire falls off
\* its end (returns None)
WakeUpCore(t) ==
    /\ tpc[t] = "sleeping"
    /\ now >= tcall[t].wake
    /\ lockHolder' = NONE
    /\ IF tcall[t].attempt + 1 < AttemptLimit(tcall[t].retry)
       THEN /\ tcall' = [tcall EXCEPT ![t].attempt = @ + 1]
            /\ tpc' = [tpc EXCEPT ![t] = "waiting"]
            /\ waiters' = Append(waiters, t)
            /\ UNCHANGED callLog
       ELSE /\ callLog' = Append(callLog, Finished(t, "None", tcall[t].attempt + 1))
            /\ tpc' = [tpc EXCEPT ![t] = "idle"]
            /\ tcall' = [tcall EXCEPT ![t] = IdleCall]
            /\ UNCHANGED waiters
    /\ UNCHANGED <<rl_cps, rl_burst, tokens, last_update, now,
                   total_requests, throttled_requests, intervals, firstLog>>

WakeUp(t) ==
    /\ WakeUpCore(t)
    /\ UNCHANGED <<fwVars, rtVars, utilVars>>

\* the monotonic clock advances
TickCore ==
    /\ \/ now < MaxTime
       \/ \E t \in Tasks : tpc[t] = "sleeping" /\ now < tcall[t].wake
    /\ now' = now + 1
    /\ UNCHANGED <<rl_cps, rl_burst, tokens, last_update, lockHolder, waiters,
                   tpc, tcall, total_requests, throttled_requests, intervals,
                   firstLog, callLog>>

Tick ==
    /\ TickCore
    /\ UNCHANGED <<fwVars, rtVars, utilVars>>

RlNext ==
    \/ \E t \in Tasks : Acquire(t)
    \/ \E t \in Tasks : Attempt(t)
    \/ \E t \in Tasks : WakeUp(t)
    \/ Tick


(***************************************************************************)
(* RateLimiter, unbounded runs.  The limiter reads the clock only through  *)
(* differences (now - last_update, the end of a sleep against now), so the *)
(* clock is kept at 0 and a tick moves last_update and the ends of the     *)
(* sleeps one tick into the past instead.  An age of last_update beyond    *)
(* AgeCap refills the bucket to burst_size whatever it is, and is kept as  *)
(* AgeCap.  The statistics are counted up to MaxCalls and the histories    *)
(* are not recorded.  Task t1 keeps calling acquire(1); t2 is any other    *)
(* user of the limiter.                                                    *)
(***************************************************************************)
Max(a, b) == IF a >= b THEN a ELSE b

\* ticks after which the refill reaches burst_size from any token count
AgeCap == rl_burst * TicksPerSecond

\* a statistics counter, observed up to MaxCalls
CountUp(c) == IF c < MaxCalls THEN c + 1 ELSE c

\* the requests a task makes
RequestsOf(t) ==
    IF t = "t1"
    THEN {[IdleCall EXCEPT !.n = 1, !.retry = TRUE]}
    ELSE {[IdleCall EXCEPT !.n = n, !.retry = r] :
             n \in 1..MaxTokens, r \in BOOLEAN}

\* acquire(tokens, retry) is called
LvAcquire(t) ==
    /\ tpc[t] = "idle"
    /\ \E c \in RequestsOf(t) : tcall' = [tcall EXCEPT ![t] = c]
    /\ total_requests' = CountUp(total_requests)
    /\ tpc' = [tpc EXCEPT ![t] = "waiting"]
    /\ waiters' = Append(waiters, t)
    /\ UNCHANGED <<rl_cps, rl_burst, tokens, last_update, now, lockHolder,
                   throttled_requests, intervals, firstLog, callLog>>
    /\ UNCHANGED <<fwVars, rtVars, utilVars>>

\* one attempt under the lock: refill, then grant, sleep (holding the lock)
\* or deny
LvAttempt(t) ==
    /\ tpc[t] = "waiting"
    /\ lockHolder = NONE
    /\ waiters # <<>> /\ Head(waiters) = t
    /\ waiters' = Tail(waiters)
    /\ last_update' = now
    /\ LET c == tcall[t]
           tok == AddNewTokens(tokens, now - last_update, rl_cps, rl_burst)
           wait_time == TimeToTokens(tok, c.n)
           sleep == SleepTime(wait_time, rl_cps)
           granted == EnoughTokens(tok, c.n) \/ wait_time <= 0
       IN  IF granted
           THEN /\ tokens' = Debit(tok, c.n)
                /\ intervals' = IF EnoughTokens(tok, c.n)
                                THEN CountUp(intervals) ELSE intervals
                /\ tpc' = [tpc EXCEPT ![t] = "idle"]
                /\ tcall' = [tcall EXCEPT ![t] = IdleCall]
                /\ UNCHANGED <<throttled_requests, lockHolder>>
           ELSE /\ tokens' = tok
                /\ throttled_requests' = CountUp(throttled_requests)
                /\ UNCHANGED intervals
                /\ IF c.attempt < MaxRetries - 1
                   THEN /\ lockHolder' = t
                        /\ tpc' = [tpc EXCEPT ![t] = "sleeping"]
                        /\ tcall' = [tcall EXCEPT
                               ![t].wake = WakeTick(now, sleep, rl_cps)]
                   ELSE /\ tpc' = [tpc EXCEPT ![t] = "idle"]
                        /\ tcall' = [tcall EXCEPT ![t] = IdleCall]
                        /\ UNCHANGED lockHolder
    /\ UNCHANGED <<rl_cps, rl_burst, now, total_requests, firstLog, callLog>>
    /\ UNCHANGED <<fwVars, rtVars, utilVars>>

\* asyncio.sleep returns: `continue` leaves the lock; the next iteration
\* queues for the lock again, or the loop is exhausted and acquire returns
LvWakeUp(t) ==
    /\ tpc[t] = "sleeping"
    /\ now >= tcall[t].wake
    /\ lockHolder' = NONE
    /\ IF tcall[t].attempt + 1 < AttemptLimit(tcall[t].retry)
       THEN /\ tcall' = [tcall EXCEPT ![t].attempt = @ + 1]
            /\ tpc' = [tpc EXCEPT ![t] = "waiting"]
            /\ waiters' = Append(waiters, t)
       ELSE /\ tpc' = [tpc EXCEPT ![t] = "idle"]
            /\ tcall' = [tcall EXCEPT ![t] = IdleCall]
            /\ UNCHANGED waiters
    /\ UNCHANGED <<rl_cps, rl_burst, tokens, last_update, now,
                   total_requests, throttled_requests, intervals, firstLog,
                   callLog>>
    /\ UNCHANGED <<fwVars, rtVars, utilVars>>

\* the monotonic clock advances by one tick
LvTick ==
    /\ last_update' = Max(last_update - 1, now - AgeCap)
    /\ tcall' = [t \in Tasks |->
                   IF tpc[t] = "sleeping"
                   THEN [tcall[t] EXCEPT !.wake = Max(@ - 1, now)]
                   ELSE tcall[t]]
    /\ UNCHANGED <<rl_cps, rl_burst, tokens, now, lockHolder, waiters, tpc,
                   total_requests, throttled_requests, intervals, firstLog,
                   callLog>>
    /\ UNCHANGED <<fwVars, rtVars, utilVars>>

LvNext ==
    \/ \E t \in Tasks : LvAcquire(t)
    \/ \E t \in Tasks : LvAttempt(t)
    \/ \E t \in Tasks : LvWakeUp(t)
    \/ LvTick

\* the event loop runs every task that is ready, t1 calls acquire again
\* whenever its call has ended, and time passes
LvFairness ==
    /\ WF_vars(LvTick)
    /\ WF_vars(LvAcquire("t1"))
    /\ \A t \in Tasks : WF_vars(LvAttempt(t)) /\ WF_vars(LvWakeUp(t))

(***************************************************************************)
(* BaseModule.run_with_retry                                               *)
(***************************************************************************)
MaxRetriesArg == 4    \* largest max_retries argument tried

\* what one invocation of func can do
FuncOutcomes ==
    [kind : {"value"}, id : {"v1", "v2"}] \cup [kind : {"exception"}, id : {"E1", "E2"}]

NoResult == [kind |-> "none", id |-> "none"]

RECURSIVE Pow2(_)
\* 2 ** attempt
Pow2(k) == IF k = 0 THEN 1 ELSE 2 * Pow2(k - 1)

\* mutant: attempts counted from 1 in the exponent
BackoffSecondsFromOne(attempt) == Pow2(attempt + 1)

\* await asyncio.sleep(2 ** attempt)
BackoffSeconds(attempt) == Pow2(attempt)

\* mutant: the last attempt is taken to be attempt max_retries
LastAttemptOffByOne(attempt, max_retries) == attempt = max_retries

\* if attempt == max_retries - 1: raise
LastAttempt(attempt, max_retries) == attempt = max_retries - 1

RtInit ==
    /\ rt_max_retries \in 1..MaxRetriesArg
    /\ rt_pc = "call"
    /\ rt_attempt = 0
    /\ rt_clock = 0
    /\ rt_wake = 0
    /\ rt_result = NoResult
    /\ rt_outcomes = <<>>
    /\ rt_sleeps = <<>>

\* one iteration of the loop: await func(); return its value, re-raise on
\* the last attempt, else start asyncio.sleep(2 ** attempt)
Invoke ==
    /\ rt_pc = "call"
    /\ \E o \in FuncOutcomes :
          /\ rt_outcomes' = Append(rt_outcomes, o)
          /\ IF o.kind = "value"
             THEN /\ rt_pc' = "returned"
                  /\ rt_result' = o
                  /\ UNCHANGED <<rt_sleeps, rt_wake>>
             ELSE IF LastAttempt(rt_attempt, rt_max_retries)
                  THEN /\ rt_pc' = "raised"
                       /\ rt_result' = o
                       /\ UNCHANGED <<rt_sleeps, rt_wake>>
                  ELSE /\ rt_pc' = "sleep"
                       /\ rt_sleeps' = Append(rt_sleeps, BackoffSeconds(rt_attempt))
                       /\ rt_wake' = rt_clock + BackoffSeconds(rt_attempt)
                       /\ UNCHANGED rt_result
    /\ UNCHANGED <<rt_max_retries, rt_attempt, rt_clock>>
    /\ UNCHANGED <<fwVars, rlVars, utilVars>>

\* a second passes while run_with_retry sleeps
Backoff ==
    /\ rt_pc = "sleep"
    /\ rt_clock < rt_wake
    /\ rt_clock' = rt_clock + 1
    /\ UNCHANGED <<rt_max_retries, rt_pc, rt_attempt, rt_wake, rt_result,
                   rt_outcomes, rt_sleeps>>
    /\ UNCHANGED <<fwVars, rlVars, utilVars>>

\* the sleep is over: next value of range(max_retries), or the loop is
\* exhausted and the function returns None
NextAttempt ==
    /\ rt_pc = "sleep"
    /\ rt_clock >= rt_wake
    /\ rt_attempt' = rt_attempt + 1
    /\ IF rt_attempt + 1 < rt_max_retries
       THEN rt_pc' = "call" /\ UNCHANGED rt_result
       ELSE rt_pc' = "returned" /\ rt_result' = [kind |-> "value", id |-> "None"]
    /\ UNCHANGED <<rt_max_retries, rt_clock, rt_wake, rt_outcomes, rt_sleeps>>
    /\ UNCHANGED <<fwVars, rlVars, utilVars>>

RtNext ==
    \/ Invoke
    \/ Backoff
    \/ NextAttempt

(***************************************************************************)
(* ResultCache (core/utils/tool_manager.py)                                *)
(* The cache is a dict: a sequence of entries in insertion order, one per  *)
(* key.  get and set run their body under self._lock.                      *)
(***************************************************************************)
CacheTasks == {"u1", "u2"}
CacheKeys == {"k1", "k2"}
CacheValues == {"v1", "v2"}

MaxSize == 2          \* largest max_size tried
MaxTtl == 1           \* largest ttl tried, in ticks; ToolManager.execute_tool
                      \* caches only with a truthy (non-zero) cache_ttl
MaxCacheTime == 2     \* ticks the clock advances
MaxCacheCalls == 3    \* get/set calls per behaviour

IdleOp == [op |-> "none", key |-> NONE, value |-> NONE, ttl |-> 0]

CacheKeySet(c) == {c[i].key : i \in 1..Len(c)}

\* self.cache[key]
CacheEntryOf(c, k) == c[CHOOSE i \in 1..Len(c) : c[i].key = k]

\* del self.cache[key]
CacheDelete(c, k) == SelectSeq(c, LAMBDA e : e.key # k)

\* self.cache[key] = entry: an existing key keeps its position
CacheStore(c, e) ==
    IF e.key \in CacheKeySet(c)
    THEN [i \in 1..Len(c) |-> IF c[i].key = e.key THEN e ELSE c[i]]
    ELSE Append(c, e)

\* mutant: an entry is still served at the instant its ttl has elapsed
FreshInclusive(e, t) == t - e.timestamp <= e.ttl

\* datetime.now() - entry.timestamp < entry.ttl
Fresh(e, t) == t - e.timestamp < e.ttl

\* min(self.cache.keys(), key=timestamp): the first key, in insertion order,
\* among those with the smallest timestamp
OldestKey(c) ==
    c[CHOOSE i \in 1..Len(c) :
          /\ \A j \in 1..Len(c) : c[i].timestamp <= c[j].timestamp
          /\ \A j \in 1..(i - 1) : c[j].timestamp > c[i].timestamp].key

\* _evict_oldest
EvictOldest(c) == IF c = <<>> THEN c ELSE CacheDelete(c, OldestKey(c))

\* mutant: the cache is taken to be full one entry too late
AtCapacityOffByOne(len, size) == len > size

\* if len(self.cache) >= self.max_size
AtCapacity(len, size) == len >= size

\* the body of get: the value returned and the cache it leaves
GetBody(c, k, t) ==
    IF k \in CacheKeySet(c)
    THEN IF Fresh(CacheEntryOf(c, k), t)
         THEN [ret |-> CacheEntryOf(c, k).data, cache |-> c, expired |-> FALSE]
         ELSE [ret |-> NONE, cache |-> CacheDelete(c, k), expired |-> TRUE]
    ELSE [ret |-> NONE, cache |-> c, expired |-> FALSE]

\* the body of set: the cache it leaves
SetBody(c, size, e) ==
    CacheStore(IF AtCapacity(Len(c), size) THEN EvictOldest(c) ELSE c, e)

CacheInit ==
    /\ max_size \in 1..MaxSize
    /\ cache = <<>>
    /\ cacheLock = NONE
    /\ cacheWaiters = <<>>
    /\ cpc = [t \in CacheTasks |-> "idle"]
    /\ cop = [t \in CacheTasks |-> IdleOp]
    /\ cacheNow = 0
    /\ cacheCalls = 0
    /\ lastSet = [k \in CacheKeys |-> <<>>]
    /\ cacheLog = <<>>

\* a task calls get(key) or set(key, value, ttl) and queues for self._lock
CacheCall(t) ==
    /\ cpc[t] = "idle"
    /\ cacheCalls < MaxCacheCalls
    /\ \E k \in CacheKeys :
          \/ cop' = [cop EXCEPT ![t] = [IdleOp EXCEPT !.op = "get", !.key = k]]
          \/ \E v \in CacheValues, ttl \in 1..MaxTtl :
                cop' = [cop EXCEPT ![t] =
                           [op |-> "set", key |-> k, value |-> v, ttl |-> ttl]]
    /\ cacheCalls' = cacheCalls + 1
    /\ cpc' = [cpc EXCEPT ![t] = "waiting"]
    /\ cacheWaiters' = Append(cacheWaiters, t)
    /\ UNCHANGED <<max_size, cache, cacheLock, cacheNow, lastSet, cacheLog>>
    /\ UNCHANGED <<fwVars, rlVars, rtVars, smVars, etVars, extVars>>

\* async with self._lock: the lock is free and the task is first in line
CacheEnter(t) ==
    /\ cpc[t] = "waiting"
    /\ cacheLock = NONE
    /\ cacheWaiters # <<>> /\ Head(cacheWaiters) = t
    /\ cacheWaiters' = Tail(cacheWaiters)
    /\ cacheLock' = t
    /\ cpc' = [cpc EXCEPT ![t] = "locked"]
    /\ UNCHANGED <<max_size, cache, cop, cacheNow, cacheCalls, lastSet, cacheLog>>
    /\ UNCHANGED <<fwVars, rlVars, rtVars, smVars, etVars, extVars>>

\* ResultCache.get under the lock, then the lock is released
CacheGet(t) ==
    /\ cpc[t] = "locked"
    /\ cop[t].op = "get"
    /\ LET r == GetBody(cache, cop[t].key, cacheNow)
       IN  /\ cache' = r.cache
           /\ cacheLog' = <<[op |-> "get", key |-> cop[t].key, ret |-> r.ret,
                             expired |-> r.expired, evicted |-> <<>>]>>
    /\ cacheLock' = NONE
    /\ cpc' = [cpc EXCEPT ![t] = "idle"]
    /\ cop' = [cop EXCEPT ![t] = IdleOp]
    /\ UNCHANGED <<max_size, cacheWaiters, cacheNow, cacheCalls, lastSet>>
    /\ UNCHANGED <<fwVars, rlVars, rtVars, smVars, etVars, extVars>>

\* ResultCache.set under the lock, then the lock is released
CacheSet(t) ==
    /\ cpc[t] = "locked"
    /\ cop[t].op = "set"
    /\ LET e == [key |-> cop[t].key, data |-> cop[t].value,
                 timestamp |-> cacheNow, ttl |-> cop[t].ttl]
       IN  /\ cache' = SetBody(cache, max_size, e)
           /\ lastSet' = [lastSet EXCEPT ![cop[t].key] = <<e>>]
           /\ cacheLog' = <<[op |-> "set", key |-> cop[t].key, ret |-> NONE,
                             expired |-> FALSE,
                             evicted |-> IF AtCapacity(Len(cache), max_size)
                                            /\ cache # <<>>
                                         THEN <<CacheEntryOf(cache, OldestKey(cache))>>
                                         ELSE <<>>]>>
    /\ cacheLock' = NONE
    /\ cpc' = [cpc EXCEPT ![t] = "idle"]
    /\ cop' = [cop EXCEPT ![t] = IdleOp]
    /\ UNCHANGED <<max_size, cacheWaiters, cacheNow, cacheCalls>>
    /\ UNCHANGED <<fwVars, rlVars, rtVars, smVars, etVars, extVars>>

\* the wall clock advances
CacheTick ==
    /\ cacheNow < MaxCacheTime
    /\ cacheNow' = cacheNow + 1
    /\ UNCHANGED <<max_size, cache, cacheLock, cacheWaiters, cpc, cop,
                   cacheCalls, lastSet, cacheLog>>
    /\ UNCHANGED <<fwVars, rlVars, rtVars, smVars, etVars, extVars>>

CacheNext ==
    \/ \E t \in CacheTasks : CacheCall(t)
    \/ \E t \in CacheTasks : CacheEnter(t)
    \/ \E t \in CacheTasks : CacheGet(t)
    \/ \E t \in CacheTasks : CacheSet(t)
    \/ CacheTick

(***************************************************************************)
(* SessionManager (core/utils/session_manager.py)                          *)
(* One output directory on disk (session.json and one results file per     *)
(* module) and the SessionManager object working on it; a restart creates  *)
(* a new SessionManager on the same directory.                             *)
(***************************************************************************)
SmModules == {"A", "B"}

MaxSmCalls == 3       \* save_results / get_results calls per behaviour
MaxRestarts == 1      \* restarts per behaviour

\* results blobs: a dict of strings and lists, a dict holding a tuple, a dict
\* holding a set
Blobs == {"r1", "r_tuple", "r_set"}

EMPTY == "{}"

\* json.dumps(results): a set is not serializable (TypeError), a tuple is
\* written as an array
JsonDumps(r) ==
    CASE r = "r_set" -> [ok |-> FALSE, text |-> ""]
      [] r = "r_tuple" -> [ok |-> TRUE, text |-> "json_r_list"]
      [] OTHER -> [ok |-> TRUE, text |-> "json_" \o r]

\* json.loads(content): an array is read as a list; an empty file is not JSON
JsonLoads(text) ==
    CASE text = "json_r1" -> [ok |-> TRUE, value |-> "r1"]
      [] text = "json_r_list" -> [ok |-> TRUE, value |-> "r_list"]
      [] OTHER -> [ok |-> FALSE, value |-> NONE]

\* mutant: the results file is looked up under the raw directory
ResultsFileOfRaw(files, m) == <<>>

\* module_dir / 'processed' / f"{module_name}_results.json": <<>> when the
\* file does not exist, else <<its content>>
ResultsFileOf(files, m) == files[m]

\* get_results: the value returned and self.module_results afterwards
GetResults(mem, files, m) ==
    IF m \in DOMAIN mem
    THEN [ret |-> mem[m], mem |-> mem]
    ELSE IF ResultsFileOf(files, m) # <<>>
         THEN LET l == JsonLoads(ResultsFileOf(files, m)[1])
              IN  IF l.ok
                  THEN [ret |-> l.value, mem |-> Put(mem, m, l.value)]
                  ELSE [ret |-> EMPTY, mem |-> mem]
         ELSE [ret |-> EMPTY, mem |-> mem]

SmInit ==
    /\ smData = <<>>
    /\ smResults = <<>>
    /\ diskSession = <<>>
    /\ diskResults = [m \in SmModules |-> <<>>]
    /\ diskArchive = <<>>
    /\ smCalls = 0
    /\ smRestarts = 0
    /\ lastSave = [m \in SmModules |-> <<>>]
    /\ smLog = <<>>

\* save_results(module_name, results), with the save_session it ends with
SmSaveResults ==
    /\ smCalls < MaxSmCalls
    /\ smCalls' = smCalls + 1
    /\ \E m \in SmModules, r \in Blobs, io_ok \in BOOLEAN, session_ok \in BOOLEAN :
          LET dumps == JsonDumps(r)
              success == io_ok /\ dumps.ok
              rec == IF success
                     THEN [status |-> "completed", results_file |-> TRUE,
                           error |-> NONE]
                     ELSE [status |-> "error", results_file |-> FALSE,
                           error |-> IF io_ok THEN "TypeError" ELSE "io"]
          IN  /\ smResults' = Put(smResults, m, r)
              /\ \/ /\ success
                    /\ diskResults' = [diskResults EXCEPT ![m] = <<dumps.text>>]
                 \/ /\ ~success
                    \* open(results_file, 'w') has truncated the file, unless
                    \* it was the open or a mkdir that failed
                    /\ \/ diskResults' = [diskResults EXCEPT ![m] = <<"">>]
                       \/ ~io_ok /\ UNCHANGED diskResults
              /\ smData' = Put(smData, m, rec)
              /\ diskSession' = IF session_ok THEN <<smData'>> ELSE diskSession
              /\ lastSave' = [lastSave EXCEPT ![m] = <<[r |-> r, ok |-> success,
                                                       restarts |-> smRestarts]>>]
              /\ smLog' = <<[op |-> "save", module |-> m, ret |-> NONE,
                             restarts |-> smRestarts]>>
    /\ UNCHANGED <<smRestarts, diskArchive>>
    /\ UNCHANGED <<fwVars, rlVars, rtVars, cacheVars, etVars, extVars>>

\* get_results(module_name)
SmGetResults ==
    /\ smCalls < MaxSmCalls
    /\ smCalls' = smCalls + 1
    /\ \E m \in SmModules :
          LET g == GetResults(smResults, diskResults, m)
          IN  /\ smResults' = g.mem
              /\ smLog' = <<[op |-> "get", module |-> m, ret |-> g.ret,
                             restarts |-> smRestarts]>>
    /\ UNCHANGED <<smData, diskSession, diskResults, diskArchive, smRestarts,
                   lastSave>>
    /\ UNCHANGED <<fwVars, rlVars, rtVars, cacheVars, etVars, extVars>>

\* the process ends and SessionManager(output_dir) is constructed again
SmRestart ==
    /\ smRestarts < MaxRestarts
    /\ smRestarts' = smRestarts + 1
    /\ smResults' = <<>>
    /\ smData' = LoadSession(diskSession)
    /\ UNCHANGED <<diskSession, diskResults, diskArchive, smCalls, lastSave,
                   smLog>>
    /\ UNCHANGED <<fwVars, rlVars, rtVars, cacheVars, etVars, extVars>>

\* the outcomes of archive_session's file operations: shutil.move of the
\* output directory, mkdir of the new one, the write of the new session.json
ArchiveOutcomes == {"ok", "move_raises", "mkdir_raises", "save_fails"}

\* archive_session(): the output directory is moved under archive/, a new one
\* is made, session_data is replaced by a fresh record and saved; an
\* exception at any step is logged and ends the call
SmArchiveSession ==
    /\ smCalls < MaxSmCalls
    /\ smCalls' = smCalls + 1
    /\ \E outcome \in ArchiveOutcomes :
          /\ \/ /\ outcome = "move_raises"
                /\ UNCHANGED <<smData, smResults, diskSession, diskResults,
                               diskArchive>>
             \/ /\ outcome = "mkdir_raises"
                /\ diskArchive' = Append(diskArchive,
                                         [session |-> diskSession,
                                          results |-> diskResults])
                /\ diskSession' = <<>>
                /\ diskResults' = [m \in SmModules |-> <<>>]
                /\ UNCHANGED <<smData, smResults>>
             \/ /\ outcome \in {"ok", "save_fails"}
                /\ diskArchive' = Append(diskArchive,
                                         [session |-> diskSession,
                                          results |-> diskResults])
                /\ diskResults' = [m \in SmModules |-> <<>>]
                /\ smData' = <<>>
                /\ diskSession' = IF outcome = "ok" THEN <<smData'>> ELSE <<>>
                \* self.module_results is never assigned by the method
                /\ UNCHANGED smResults
          /\ smLog' = <<[op |-> "archive", module |-> NONE, ret |-> outcome,
                         restarts |-> smRestarts]>>
    /\ UNCHANGED <<smRestarts, lastSave>>
    /\ UNCHANGED <<fwVars, rlVars, rtVars, cacheVars, etVars, extVars>>

SmNext ==
    \/ SmSaveResults
    \/ SmGetResults
    \/ SmRestart

(***************************************************************************)
(* BaseModule.execute_tool (core/modules/base_module.py), decorated with   *)
(* tenacity's retry(stop_after_attempt(3), wait_exponential(1, 4, 10)):    *)
(* an attempt that raises is repeated after a wait, an attempt that        *)
(* returns ends the call.                                                  *)
(***************************************************************************)
MaxToolCalls == 2     \* execute_tool calls per behaviour

StopAfterAttempt == 3 \* stop_after_attempt(3)
WaitMin == 4          \* wait_exponential(min=4)
WaitMax == 10         \* wait_exponential(max=10)

\* wait_exponential(multiplier=1, min=4, max=10) after the given attempt
WaitExponential(attempt) ==
    LET exp == Pow2(attempt - 1)
        capped == IF exp < WaitMax THEN exp ELSE WaitMax
    IN  IF capped < WaitMin THEN WaitMin ELSE capped

\* ToolResult(success, output, error, exit_code)
ToolResult(success, error, code) ==
    [success |-> success, error |-> error, exit_code |-> code]

\* mutant: a missing tool raises ToolExecutionError instead of returning
OnToolMissingRaise == "raise"

\* if not await self._check_tool_exists(cmd[0]): return ToolResult(...)
OnToolMissing == "return"

\* what a process leaves on stdout or stderr: nothing, UTF-8 text, or bytes
\* that are not UTF-8
ProcStreams == {"", "text", "bytes"}

\* _check_tool_exists: `which` ran, exited with 0 and printed a path
CheckToolExists(resolvable, which_ok) == which_ok /\ resolvable

EtInit ==
    /\ et_pc = "idle"
    /\ et_cmd = NONE
    /\ et_resolvable = FALSE
    /\ et_attempt = 0
    /\ et_clock = 0
    /\ et_wake = 0
    /\ et_spawned = 0
    /\ et_proc = "none"
    /\ et_calls = 0
    /\ et_log = <<>>

\* the call is over: what the caller gets, and how the call went
EtFinish(outcome, result) ==
    /\ et_log' = Append(et_log,
                   [cmd |-> et_cmd, resolvable |-> et_resolvable,
                    outcome |-> outcome, result |-> result,
                    attempts |-> et_attempt, spawned |-> et_spawned,
                    proc |-> et_proc',
                    waited |-> et_clock])
    /\ et_pc' = "idle"

\* execute_tool(cmd) is called; the command is empty or names a tool that is
\* or is not on the search path
EtCall ==
    /\ et_pc = "idle"
    /\ et_calls < MaxToolCalls
    /\ et_calls' = et_calls + 1
    /\ et_cmd' \in {"empty", "tool"}
    /\ et_resolvable' \in BOOLEAN
    /\ et_attempt' = 1
    /\ et_clock' = 0
    /\ et_wake' = 0
    /\ et_spawned' = 0
    /\ et_proc' = "none"
    /\ et_pc' = "check"
    /\ UNCHANGED et_log
    /\ UNCHANGED <<fwVars, rlVars, rtVars, cacheVars, smVars, extVars>>

\* the attempt up to the check of the binary: cmd[0] of an empty command
\* raises IndexError in the try block and again in the except block, which
\* formats cmd[0] for the log
EtCheck ==
    /\ et_pc = "check"
    /\ et_proc' = et_proc
    /\ IF et_cmd = "empty"
       THEN /\ et_pc' = "failed"
            /\ UNCHANGED et_log
       ELSE \E which_ok \in BOOLEAN :
               IF CheckToolExists(et_resolvable, which_ok)
               THEN /\ et_pc' = "spawn"
                    /\ UNCHANGED et_log
               ELSE IF OnToolMissing = "return"
                    THEN EtFinish("returned", ToolResult(FALSE, "not found", -1))
                    ELSE /\ et_pc' = "failed"
                         /\ UNCHANGED et_log
    /\ UNCHANGED <<et_cmd, et_resolvable, et_attempt, et_clock, et_wake,
                   et_spawned, et_calls>>
    /\ UNCHANGED <<fwVars, rlVars, rtVars, cacheVars, smVars, extVars>>

\* asyncio.create_subprocess_exec(*cmd): the process starts, or the
\* exception is turned into a failure result
EtSpawn ==
    /\ et_pc = "spawn"
    /\ \E spawn_ok \in BOOLEAN :
          IF spawn_ok
          THEN /\ et_spawned' = et_spawned + 1
               /\ et_proc' = "running"
               /\ et_pc' = "communicate"
               /\ UNCHANGED et_log
          ELSE /\ et_proc' = et_proc
               /\ EtFinish("returned", ToolResult(FALSE, "exception", -1))
               /\ UNCHANGED et_spawned
    /\ UNCHANGED <<et_cmd, et_resolvable, et_attempt, et_clock, et_wake, et_calls>>
    /\ UNCHANGED <<fwVars, rlVars, rtVars, cacheVars, smVars, extVars>>

\* bytes.decode() of a stream the process wrote: 'utf-8', errors='strict'
Decodes(stream) == stream \in {"", "text"}

\* stdout.decode() if stdout else None
DecodeOrNone(stream) == IF stream = "" THEN NONE ELSE stream

\* wait_for(process.communicate(), timeout): on timeout the process is
\* killed; otherwise the result is built from the exit code and the two
\* decoded streams, and a stream that is not UTF-8 raises
\* UnicodeDecodeError, which the outer handler turns into a failure
EtCommunicate ==
    /\ et_pc = "communicate"
    /\ \E end \in {"timeout", "exit0", "exit1"},
          stdout \in ProcStreams, stderr \in ProcStreams :
          CASE end = "timeout" ->
                 /\ et_proc' = "killed"
                 /\ EtFinish("returned", ToolResult(FALSE, "timed out", -1))
            [] end # "timeout" /\ ~(Decodes(stdout) /\ Decodes(stderr)) ->
                 /\ et_proc' = end
                 /\ EtFinish("returned",
                             ToolResult(FALSE, "UnicodeDecodeError", -1))
            [] OTHER ->
                 /\ et_proc' = end
                 /\ EtFinish("returned",
                             ToolResult(end = "exit0", DecodeOrNone(stderr),
                                        IF end = "exit0" THEN 0 ELSE 1))
    /\ UNCHANGED <<et_cmd, et_resolvable, et_attempt, et_clock, et_wake,
                   et_spawned, et_calls>>
    /\ UNCHANGED <<fwVars, rlVars, rtVars, cacheVars, smVars, extVars>>

\* tenacity after an attempt that raised: wait and try again, or give up
\* with RetryError after the last attempt
EtRetry ==
    /\ et_pc = "failed"
    /\ et_proc' = et_proc
    /\ IF et_attempt < StopAfterAttempt
       THEN /\ et_wake' = et_clock + WaitExponential(et_attempt)
            /\ et_pc' = "wait"
            /\ UNCHANGED et_log
       ELSE /\ EtFinish("raised", ToolResult(FALSE, "RetryError", -1))
            /\ UNCHANGED et_wake
    /\ UNCHANGED <<et_cmd, et_resolvable, et_attempt, et_clock, et_spawned,
                   et_calls>>
    /\ UNCHANGED <<fwVars, rlVars, rtVars, cacheVars, smVars, extVars>>

\* a second of the wait passes
EtTick ==
    /\ et_pc = "wait"
    /\ et_clock < et_wake
    /\ et_clock' = et_clock + 1
    /\ UNCHANGED <<et_pc, et_cmd, et_resolvable, et_attempt, et_wake,
                   et_spawned, et_calls, et_log>>
    /\ UNCHANGED et_proc
    /\ UNCHANGED <<fwVars, rlVars, rtVars, cacheVars, smVars, extVars>>

\* the wait is over: the next attempt starts
EtNextAttempt ==
    /\ et_pc = "wait"
    /\ et_clock >= et_wake
    /\ et_attempt' = et_attempt + 1
    /\ et_pc' = "check"
    /\ UNCHANGED <<et_cmd, et_resolvable, et_clock, et_wake, et_spawned,
                   et_calls, et_log>>
    /\ UNCHANGED et_proc
    /\ UNCHANGED <<fwVars, rlVars, rtVars, cacheVars, smVars, extVars>>

EtNext ==
    \/ EtCall
    \/ EtCheck
    \/ EtSpawn
    \/ EtCommunicate
    \/ EtRetry
    \/ EtTick
    \/ EtNextAttempt

(***************************************************************************)
(* ToolExecutor.run_tool (core/utils/tools.py): the tasks of a module run  *)
(* tools through one executor, whose RateLimiter they share.  The body of  *)
(* run_tool is inside `async with self.rate_limiter`, and __aenter__ is    *)
(* `await self.acquire(); return self`.  The limiter is the one modelled   *)
(* above, with calls_per_second and burst_size in the same small ranges.   *)
(***************************************************************************)
MaxRunTools == 4      \* run_tool calls per behaviour

XtInit ==
    /\ xt_pc = [t \in Tasks |-> "idle"]
    /\ xt_acq = [t \in Tasks |-> NONE]
    /\ xt_proc = [t \in Tasks |-> FALSE]
    /\ xt_calls = 0

\* self.rate_limiter = RateLimiter(): burst_size is calls_per_second
XtLimiterInit ==
    /\ RlInit
    /\ rl_burst = BurstSize(rl_cps, 0)

\* what __aenter__ does with the value of `await self.acquire()`: nothing;
\* the body of the `async with` is entered
AenterProceeds(acquired) == TRUE

\* run_tool returns its ToolResult to t
XtFinish(t) == xt_pc' = [xt_pc EXCEPT ![t] = "idle"]

\* t's acquire call ends in this step of the limiter, or goes on
XtObserveAcquire(t) ==
    IF tpc'[t] = "idle"
    THEN LET acquired == callLog'[Len(callLog')].result
         IN  /\ xt_acq' = [xt_acq EXCEPT ![t] = acquired]
             /\ xt_pc' = [xt_pc EXCEPT ![t] =
                             IF AenterProceeds(acquired) THEN "entered" ELSE "idle"]
    ELSE UNCHANGED <<xt_acq, xt_pc>>

\* run_tool(cmd) is called: `async with self.rate_limiter` calls
\* acquire(), that is acquire(tokens=1, retry=True)
XtRunTool(t) ==
    /\ xt_pc[t] = "idle"
    /\ tpc[t] = "idle"
    /\ xt_calls < MaxRunTools
    /\ xt_calls' = xt_calls + 1
    /\ xt_pc' = [xt_pc EXCEPT ![t] = "acquiring"]
    /\ xt_acq' = [xt_acq EXCEPT ![t] = NONE]
    /\ xt_proc' = [xt_proc EXCEPT ![t] = FALSE]
    /\ tcall' = [tcall EXCEPT ![t] = [IdleCall EXCEPT !.n = 1, !.retry = TRUE]]
    /\ total_requests' = total_requests + 1
    /\ tpc' = [tpc EXCEPT ![t] = "waiting"]
    /\ waiters' = Append(waiters, t)
    /\ UNCHANGED <<rl_cps, rl_burst, tokens, last_update, now, lockHolder,
                   throttled_requests, intervals, firstLog, callLog>>
    /\ UNCHANGED <<fwVars, rtVars, cacheVars, smVars, etVars, mgVars, monVars, vtVars, lateVars>>

\* an attempt of t's acquire
XtAttempt(t) ==
    /\ xt_pc[t] = "acquiring"
    /\ AttemptCore(t)
    /\ XtObserveAcquire(t)
    /\ UNCHANGED <<xt_proc, xt_calls>>
    /\ UNCHANGED <<fwVars, rtVars, cacheVars, smVars, etVars, mgVars, monVars, vtVars, lateVars>>

\* the sleep inside t's acquire is over
XtWakeUp(t) ==
    /\ xt_pc[t] = "acquiring"
    /\ WakeUpCore(t)
    /\ XtObserveAcquire(t)
    /\ UNCHANGED <<xt_proc, xt_calls>>
    /\ UNCHANGED <<fwVars, rtVars, cacheVars, smVars, etVars, mgVars, monVars, vtVars, lateVars>>

\* the monotonic clock advances
XtTick ==
    /\ TickCore
    /\ UNCHANGED xtVars
    /\ UNCHANGED <<fwVars, rtVars, cacheVars, smVars, etVars, mgVars, monVars, vtVars, lateVars>>

\* asyncio.create_subprocess_exec(*cmd): the process starts, or the
\* exception is turned into a failure result
XtSpawn(t) ==
    /\ xt_pc[t] = "entered"
    /\ \E spawn_ok \in BOOLEAN :
          IF spawn_ok
          THEN /\ xt_proc' = [xt_proc EXCEPT ![t] = TRUE]
               /\ xt_pc' = [xt_pc EXCEPT ![t] = "running"]
          ELSE /\ xt_proc' = xt_proc
               /\ XtFinish(t)
    /\ UNCHANGED <<xt_acq, xt_calls>>
    /\ UNCHANGED <<fwVars, rlVars, rtVars, cacheVars, smVars, etVars, mgVars, monVars, vtVars, lateVars>>

\* wait_for(process.communicate(), timeout): the process ends or is
\* killed, and run_tool returns
XtCommunicate(t) ==
    /\ xt_pc[t] = "running"
    /\ xt_proc' = xt_proc
    /\ XtFinish(t)
    /\ UNCHANGED <<xt_acq, xt_calls>>
    /\ UNCHANGED <<fwVars, rlVars, rtVars, cacheVars, smVars, etVars, mgVars, monVars, vtVars, lateVars>>

XtNext ==
    \/ \E t \in Tasks : XtRunTool(t)
    \/ \E t \in Tasks : XtAttempt(t)
    \/ \E t \in Tasks : XtWakeUp(t)
    \/ XtTick
    \/ \E t \in Tasks : XtSpawn(t)
    \/ \E t \in Tasks : XtCommunicate(t)

(***************************************************************************)
(* DiscoveryModule.run (core/modules/discovery.py): one task per installed *)
(* tool, created in the order of self.tools; the tasks complete in any     *)
(* order; run() awaits them in the order it created them, extends          *)
(* results['subdomains'] with each task's list, then removes duplicates    *)
(* with list(dict.fromkeys(...)).                                          *)
(***************************************************************************)
MaxOut == 2           \* longest list a tool returns

\* self.tools, in insertion order
ToolOrder == <<"subfinder", "amass", "findomain">>

DiscoveryTools == {ToolOrder[i] : i \in 1..Len(ToolOrder)}

\* subdomains a tool can report
Items == {"x.com", "y.com"}

\* self.framework.target
Target == "target.com"

\* the lists a tool's task can return
ToolOutputs == UNION {[1..n -> Items] : n \in 0..MaxOut}

ElemsOf(seq) == {seq[i] : i \in 1..Len(seq)}

RECURSIVE DictFromKeys(_, _)
\* list(dict.fromkeys(seq)): the first occurrence of every element, in order
DictFromKeys(seq, seen) ==
    IF seq = <<>> THEN <<>>
    ELSE IF Head(seq) \in seen
         THEN DictFromKeys(Tail(seq), seen)
         ELSE <<Head(seq)>> \o DictFromKeys(Tail(seq), seen \cup {Head(seq)})

\* mutant: the tasks are consumed as they complete
AwaitOrderAsCompleted(created, completed) == completed

\* for tool_name, task in tool_tasks: tool_result = await task
AwaitOrder(created, completed) == created

MgInit ==
    /\ mg_installed \in SUBSET DiscoveryTools
    /\ mg_out \in [DiscoveryTools -> ToolOutputs]
    /\ \A t \in DiscoveryTools : t \notin mg_installed => mg_out[t] = <<>>
    /\ mg_pc = "start"
    /\ mg_tasks = <<>>
    /\ mg_completed = <<>>
    /\ mg_i = 1
    /\ mg_acc = <<>>
    /\ mg_saved = FALSE
    /\ mg_ret = <<>>

\* the first loop: asyncio.create_task for every installed tool
MgCreateTasks ==
    /\ mg_pc = "start"
    /\ mg_tasks' = SelectSeq(ToolOrder, LAMBDA t : t \in mg_installed)
    /\ mg_pc' = "await"
    /\ UNCHANGED <<mg_installed, mg_out, mg_completed, mg_i, mg_acc,
                   mg_saved, mg_ret>>
    /\ UNCHANGED <<fwVars, rlVars, rtVars, cacheVars, smVars, etVars, xtVars, monVars, vtVars, lateVars>>

\* the task of a tool completes
MgComplete(t) ==
    /\ mg_pc = "await"
    /\ t \in ElemsOf(mg_tasks)
    /\ t \notin ElemsOf(mg_completed)
    /\ mg_completed' = Append(mg_completed, t)
    /\ UNCHANGED <<mg_installed, mg_out, mg_pc, mg_tasks, mg_i, mg_acc,
                   mg_saved, mg_ret>>
    /\ UNCHANGED <<fwVars, rlVars, rtVars, cacheVars, smVars, etVars, xtVars, monVars, vtVars, lateVars>>

\* one iteration of the second loop: the awaited task is done and its
\* subdomains are appended
MgAwait ==
    /\ mg_pc = "await"
    /\ mg_i <= Len(mg_tasks)
    /\ LET awaited == AwaitOrder(mg_tasks, mg_completed)
       IN  /\ mg_i <= Len(awaited)
           /\ awaited[mg_i] \in ElemsOf(mg_completed)
           /\ mg_acc' = mg_acc \o mg_out[awaited[mg_i]]
    /\ mg_i' = mg_i + 1
    /\ UNCHANGED <<mg_installed, mg_out, mg_pc, mg_tasks, mg_completed,
                   mg_saved, mg_ret>>
    /\ UNCHANGED <<fwVars, rlVars, rtVars, cacheVars, smVars, etVars, xtVars, monVars, vtVars, lateVars>>

\* after the loop: duplicates removed, the target put in when nothing was
\* found, the list written to processed/subdomains.txt and returned; when
\* the write raises, the handler returns the target alone
MgFinish ==
    /\ mg_pc = "await"
    /\ mg_i > Len(mg_tasks)
    /\ \E write_ok \in BOOLEAN :
          LET unique == DictFromKeys(mg_acc, {})
              listed == IF unique = <<>> THEN <<Target>> ELSE unique
          IN  /\ mg_saved' = write_ok
              /\ mg_ret' = IF write_ok THEN listed ELSE <<Target>>
    /\ mg_pc' = "done"
    /\ UNCHANGED <<mg_installed, mg_out, mg_tasks, mg_completed, mg_i, mg_acc>>
    /\ UNCHANGED <<fwVars, rlVars, rtVars, cacheVars, smVars, etVars, xtVars, monVars, vtVars, lateVars>>

MgNext ==
    \/ MgCreateTasks
    \/ \E t \in DiscoveryTools : MgComplete(t)
    \/ MgAwait
    \/ MgFinish

(***************************************************************************)
(* PerformanceMonitor (core/utils/monitor.py): per-module monitoring       *)
(* (start_monitoring_module, the task _monitor_module, and                 *)
(* stop_monitoring_module, which run under _monitoring_lock) and per-tool  *)
(* metrics.  A resource sample is a CPU reading in 0..MaxCpu; the averages *)
(* are kept as the sum and the number of the samples.                      *)
(***************************************************************************)
MonModules == {"A", "B"}

MonTools == {"nmap", "ffuf"}

MaxMonCalls == 4      \* monitor operations per behaviour
MaxMonTime == 2       \* seconds the clock advances
MaxSamples == 2       \* samples a monitoring task takes
MaxCpu == 1           \* largest CPU reading

\* ModuleMetrics(start_time=datetime.now().isoformat())
NewModuleMetrics(t) ==
    [start_time |-> t, end_time |-> -1, duration |-> 0, peak_cpu_percent |-> 0,
     cpu_sum |-> 0, cpu_samples |-> 0, total_network_bytes |-> 0]

\* ToolMetrics(name=tool_name, start_time=datetime.now())
NewToolMetrics(t) ==
    [start_time |-> t, end_time |-> -1, execution_time |-> 0,
     success_count |-> 0, error_count |-> 0, retries |-> 0]

\* mutant: the retries of an earlier run of the tool are carried over
RestartedToolMetricsKeepRetries(t, old) ==
    IF old = <<>> THEN NewToolMetrics(t)
    ELSE [NewToolMetrics(t) EXCEPT !.retries = old[1].retries]

\* self.tool_metrics[tool_name] = ToolMetrics(...), whatever was there
RestartedToolMetrics(t, old) == NewToolMetrics(t)

\* success_count / (success_count + error_count) if their sum > 0 else 0,
\* as numerator and denominator
SuccessRate(m) ==
    IF m.success_count + m.error_count > 0
    THEN <<m.success_count, m.success_count + m.error_count>>
    ELSE <<0, 1>>

\* get_tool_performance(tool_name): <<>> stands for None
GetToolPerformance(tool) ==
    IF tool_metrics[tool] # <<>>
    THEN LET m == tool_metrics[tool][1]
         IN  <<[execution_time |-> m.execution_time,
                success_rate |-> SuccessRate(m),
                retries |-> m.retries]>>
    ELSE <<>>

MonInit ==
    /\ monitoring_tasks = {}
    /\ metrics = [m \in MonModules |-> <<>>]
    /\ tool_metrics = [t \in MonTools |-> <<>>]
    /\ mon_now = 0
    /\ mon_calls = 0
    /\ tm_retried = [t \in MonTools |-> 0]
    /\ tm_stops = [t \in MonTools |-> <<>>]

\* start_monitoring_module(m): nothing when m has a monitoring task, else a
\* new ModuleMetrics replaces m's record and the task is created
StartMonitoringModule(m) ==
    /\ mon_calls < MaxMonCalls
    /\ mon_calls' = mon_calls + 1
    /\ IF m \in monitoring_tasks
       THEN UNCHANGED <<monitoring_tasks, metrics>>
       ELSE /\ metrics' = [metrics EXCEPT ![m] = <<NewModuleMetrics(mon_now)>>]
            /\ monitoring_tasks' = monitoring_tasks \cup {m}
    /\ UNCHANGED <<tool_metrics, mon_now, tm_retried, tm_stops>>
    /\ UNCHANGED <<fwVars, rlVars, rtVars, cacheVars, smVars, etVars, xtVars, mgVars, vtVars, lateVars>>

\* one iteration of _monitor_module(m): peak and average from a new sample
MonitorModule(m) ==
    /\ m \in monitoring_tasks
    /\ metrics[m][1].cpu_samples < MaxSamples
    /\ \E cpu \in 0..MaxCpu :
          LET old == metrics[m][1]
          IN  metrics' = [metrics EXCEPT ![m] = <<[old EXCEPT
                             !.peak_cpu_percent = IF cpu > @ THEN cpu ELSE @,
                             !.cpu_sum = @ + cpu,
                             !.cpu_samples = @ + 1]>>]
    /\ UNCHANGED <<monitoring_tasks, tool_metrics, mon_now, mon_calls,
                   tm_retried, tm_stops>>
    /\ UNCHANGED <<fwVars, rlVars, rtVars, cacheVars, smVars, etVars, xtVars, mgVars, vtVars, lateVars>>

\* stop_monitoring_module(m): nothing when m has no monitoring task, else
\* the task is cancelled and awaited (a task that had started stores the
\* network bytes), then end_time and duration are set
StopMonitoringModule(m) ==
    /\ mon_calls < MaxMonCalls
    /\ mon_calls' = mon_calls + 1
    /\ IF m \notin monitoring_tasks
       THEN UNCHANGED <<monitoring_tasks, metrics>>
       ELSE /\ monitoring_tasks' = monitoring_tasks \ {m}
            /\ \E bytes \in 0..1 :
                  LET old == metrics[m][1]
                  IN  metrics' = [metrics EXCEPT ![m] = <<[old EXCEPT
                                     !.total_network_bytes = bytes,
                                     !.end_time = mon_now,
                                     !.duration = mon_now - old.start_time]>>]
    /\ UNCHANGED <<tool_metrics, mon_now, tm_retried, tm_stops>>
    /\ UNCHANGED <<fwVars, rlVars, rtVars, cacheVars, smVars, etVars, xtVars, mgVars, vtVars, lateVars>>

\* start_tool_monitoring(tool)
StartToolMonitoring(tool) ==
    /\ mon_calls < MaxMonCalls
    /\ mon_calls' = mon_calls + 1
    /\ tool_metrics' = [tool_metrics EXCEPT ![tool] =
                            <<RestartedToolMetrics(mon_now, @)>>]
    /\ tm_retried' = [tm_retried EXCEPT ![tool] = 0]
    /\ tm_stops' = [tm_stops EXCEPT ![tool] = <<>>]
    /\ UNCHANGED <<monitoring_tasks, metrics, mon_now>>
    /\ UNCHANGED <<fwVars, rlVars, rtVars, cacheVars, smVars, etVars, xtVars, mgVars, vtVars, lateVars>>

\* stop_tool_monitoring(tool, success)
StopToolMonitoring(tool) ==
    /\ mon_calls < MaxMonCalls
    /\ mon_calls' = mon_calls + 1
    /\ \E success \in BOOLEAN :
          IF tool_metrics[tool] # <<>>
          THEN /\ LET old == tool_metrics[tool][1]
                  IN  tool_metrics' = [tool_metrics EXCEPT ![tool] = <<[old EXCEPT
                          !.end_time = mon_now,
                          !.execution_time = mon_now - old.start_time,
                          !.success_count = IF success THEN @ + 1 ELSE @,
                          !.error_count = IF success THEN @ ELSE @ + 1]>>]
               /\ tm_stops' = [tm_stops EXCEPT ![tool] = Append(@, success)]
          ELSE UNCHANGED <<tool_metrics, tm_stops>>
    /\ UNCHANGED <<monitoring_tasks, metrics, mon_now, tm_retried>>
    /\ UNCHANGED <<fwVars, rlVars, rtVars, cacheVars, smVars, etVars, xtVars, mgVars, vtVars, lateVars>>

\* record_tool_retry(tool)
RecordToolRetry(tool) ==
    /\ mon_calls < MaxMonCalls
    /\ mon_calls' = mon_calls + 1
    /\ IF tool_metrics[tool] # <<>>
       THEN /\ tool_metrics' = [tool_metrics EXCEPT ![tool] =
                                   <<[tool_metrics[tool][1] EXCEPT !.retries = @ + 1]>>]
            /\ tm_retried' = [tm_retried EXCEPT ![tool] = @ + 1]
       ELSE UNCHANGED <<tool_metrics, tm_retried>>
    /\ UNCHANGED <<monitoring_tasks, metrics, mon_now, tm_stops>>
    /\ UNCHANGED <<fwVars, rlVars, rtVars, cacheVars, smVars, etVars, xtVars, mgVars, vtVars, lateVars>>

\* a second passes
MonTick ==
    /\ mon_now < MaxMonTime
    /\ mon_now' = mon_now + 1
    /\ UNCHANGED <<monitoring_tasks, metrics, tool_metrics, mon_calls,
                   tm_retried, tm_stops>>
    /\ UNCHANGED <<fwVars, rlVars, rtVars, cacheVars, smVars, etVars, xtVars, mgVars, vtVars, lateVars>>

\* the per-module operations
MonNext ==
    \/ \E m \in MonModules : StartMonitoringModule(m)
    \/ \E m \in MonModules : MonitorModule(m)
    \/ \E m \in MonModules : StopMonitoringModule(m)
    \/ MonTick

\* the per-tool operations
TmNext ==
    \/ \E t \in MonTools : StartToolMonitoring(t)
    \/ \E t \in MonTools : StopToolMonitoring(t)
    \/ \E t \in MonTools : RecordToolRetry(t)
    \/ MonTick

(***************************************************************************)
(* Properties of the Framework                                             *)
(***************************************************************************)
Registered == SeqRange(cfgModules)

\* every declared dependency names a registered module
DepsRegistered == \A m \in Registered : cfgDeps[m] \subseteq Registered

\* the declared dependencies admit a ranking, i.e. they form a DAG
DepsAcyclic ==
    \E rank \in [Names -> 1..Cardinality(Names)] :
        \A m \in Registered : \A d \in cfgDeps[m] : rank[d] < rank[m]

\* position of x in the sequence s (0 when absent)
Pos(s, x) == IF x \in SeqRange(s) THEN CHOOSE i \in 1..Len(s) : s[i] = x ELSE 0

OrderComputed == pc \notin {"verify", "init", "order"}

\* the configuration A, B depends on A, C depends on A and B
ChainABC ==
    /\ cfgModules = <<"A", "B", "C">>
    /\ cfgDeps = [n \in Names |-> CASE n = "A" -> {}
                                    [] n = "B" -> {"A"}
                                    [] n = "C" -> {"A", "B"}]

\* C1: with registered, acyclic dependencies the computed order holds every
\* registered module exactly once and every dependency before its dependent;
\* A, B(A), C(A, B) yields [A, B, C]
C1_OrderRespectsDependencies ==
    (DepsRegistered /\ DepsAcyclic /\ OrderComputed) =>
        /\ fatal \in {NONE, "SystemExit"}
        /\ Len(module_order) = Len(cfgModules)
        /\ SeqRange(module_order) = Registered
        /\ \A m \in Registered : \A d \in cfgDeps[m] :
               Pos(module_order, d) < Pos(module_order, m)
        /\ ChainABC => module_order = <<"A", "B", "C">>

C1_Witness ==
    /\ ChainABC
    /\ pc = "loop"
    /\ module_order = <<"A", "B", "C">>

\* C2: with a dependency cycle graph construction raises
\* ModuleDependencyError: the run never gets to computing an order, no order
\* is returned and no setup() or run() is invoked
C2_CycleIsFatalBeforeAnyModule ==
    ~DepsAcyclic =>
        /\ pc \in {"verify", "init", "cleanup", "done"}
        /\ pc \in {"cleanup", "done"} => fatal = "ModuleDependencyError"
        /\ module_order = <<>>
        /\ \A n \in Names : setupCalls[n] = 0 /\ runCalls[n] = 0

C2_Witness ==
    /\ ~DepsAcyclic
    /\ \A m \in Registered : m \notin cfgDeps[m]
    /\ pc = "done"
    /\ fatal = "ModuleDependencyError"

\* C3: modules execute one at a time, run() at most once per module, and a
\* module's setup()/run() begins only after each of its dependencies has
\* finished (returned or raised)
C3_SequentialInDependencyOrder ==
    /\ Cardinality(executing) <= 1
    /\ \A m \in Names : runCalls[m] <= 1 /\ setupCalls[m] <= 1
    /\ \A m \in Registered :
          setupCalls[m] > 0 =>
              \A d \in cfgDeps[m] : d \in finished /\ d \notin executing

C3_Witness ==
    /\ pc = "run"
    /\ idx = 3
    /\ cfgDeps[CurName] = {module_order[1], module_order[2]}
    /\ finished = {module_order[1], module_order[2]}

\* C4: an exception of setup() or run() is caught and recorded on that module
\* only (status error, error text); the operator is asked; on `y` the next
\* module in order is executed even if it depends on the failed one
C4_ErrorIsLocalToModule ==
    [][ /\ pc = "except" =>
              /\ pendingErr \in {"setup failed", "run failed"}
              /\ module_states' = [module_states EXCEPT ![CurName] =
                                      [status |-> "error", error |-> pendingErr]]
              /\ fatal' = NONE
              /\ pc' = "prompt_err"
        /\ pc = "prompt_err" =>
              /\ Len(prompts') = Len(prompts) + 1
              /\ prompts'[Len(prompts')].module = CurName
              /\ prompts'[Len(prompts')].after = "error"
              /\ pc' = "finally"
        /\ (pc = "finally" /\ module_states[CurName].status = "error"
              /\ prompts[Len(prompts)].answer = "y") =>
              /\ pc' = "loop"
              /\ idx' = idx + 1
        /\ (pc = "loop" /\ idx <= Len(module_order) /\ CurName \in Registered) =>
              /\ pc' = "setup"
              /\ setupCalls'[CurName] = 1
      ]_vars

C4_Witness ==
    /\ pc = "run"
    /\ idx = 2
    /\ module_order[1] \in cfgDeps[CurName]
    /\ module_states[module_order[1]] = [status |-> "error", error |-> "run failed"]
    /\ prompts[Len(prompts)] =
           [module |-> module_order[1], after |-> "error", answer |-> "y"]

\* the operator answered the latest prompt with no
Declined == prompts # <<>> /\ prompts[Len(prompts)].answer = "n"

CountStatus(states, st) == Cardinality({n \in DOMAIN states : states[n].status = st})

\* C5: once the operator declines to continue no later module is started:
\* every module after the current one is pending when the summary is
\* produced, and the summary shows each module's actual status (ChainABC with
\* A failing and the operator declining: one error, two pending)
C5_DeclineHaltsRun ==
    Declined =>
        /\ \A j \in (Pos(module_order, prompts[Len(prompts)].module) + 1)
                     ..Len(module_order) :
              /\ setupCalls[module_order[j]] = 0
              /\ runCalls[module_order[j]] = 0
              /\ module_order[j] \in Registered =>
                     module_states[module_order[j]].status = "pending"
        /\ summary # <<>> =>
              /\ DOMAIN summary[1] = Registered
              /\ \A n \in Registered : summary[1][n] = module_states[n]
              /\ (ChainABC /\ prompts[1] = [module |-> "A", after |-> "error",
                                            answer |-> "n"]) =>
                     /\ CountStatus(summary[1], "error") = 1
                     /\ CountStatus(summary[1], "pending") = 2
                     /\ summary[1]["A"].status = "error"

C5_Witness ==
    /\ ChainABC
    /\ Declined
    /\ prompts[1] = [module |-> "A", after |-> "error", answer |-> "n"]
    /\ summary # <<>>
    /\ CountStatus(summary[1], "error") = 1
    /\ CountStatus(summary[1], "pending") = 2

\* C6: a module marked running is marked completed or error before the
\* orchestrator moves on, whatever run() returns: at most one module is
\* running at any time, none when the loop moves on or the summary is produced
C6_RunningIsResolved ==
    /\ CountStatus(module_states, "running") <= 1
    /\ pc \in {"loop", "finalize", "summary", "cleanup", "done"} =>
           CountStatus(module_states, "running") = 0
    /\ summary # <<>> => CountStatus(summary[1], "running") = 0


(***************************************************************************)
(* Properties of the Framework: persistence, resumption, configuration     *)
(* errors, tool verification, exit code                                    *)
(***************************************************************************)
\* the persisted session record lists module m with one of the statuses sts
Persisted(m, sts) ==
    /\ session_file # <<>>
    /\ m \in DOMAIN session_file[1]
    /\ session_file[1][m].status \in sts

\* C14: when a signal (or a fatal failure) ends the run while a module is
\* running, session.json shows that module as error or interrupted, and after
\* cleanup no module is left or recorded as running
C14_InterruptedModuleIsRecorded ==
    (pc = "done" /\ fatal = "SystemExit" /\ ~ioFailed) =>
        /\ Persisted(CurName, {"error", "interrupted"})
        /\ \A m \in DOMAIN module_states : module_states[m].status # "running"
        /\ \A m \in DOMAIN session_data : session_data[m].status # "running"

\* C15: by the time the next module starts (or the loop ends), the status the
\* orchestrator gave each earlier module, completed or error, is in
\* session.json, for error together with the error text
C15_TransitionsArePersisted ==
    (pc = "loop" /\ idx > 1 /\ ~ioFailed) =>
        \A j \in 1..(idx - 1) :
            LET m == module_order[j]
            IN  (m \in Registered
                   /\ module_states[m].status \in {"completed", "error"}) =>
                    /\ Persisted(m, {module_states[m].status})
                    /\ module_states[m].status = "error" =>
                           session_file[1][m].error = module_states[m].error

\* C35: a module the orchestrator marks completed has its results persisted:
\* the session record of a completed module does not say error.
C35_CompletedMeansPersisted ==
    \A m \in DOMAIN module_states :
        (module_states[m].status = "completed" /\ m \in DOMAIN session_data) =>
            session_data[m].status # "error"

\* C16: a module the session record loaded at startup lists as completed is
\* not run again
C16_CompletedModulesAreNotRerun ==
    \A m \in DOMAIN loaded :
        loaded[m].status = "completed" => runCalls[m] = 0

\* C17: with a dependency on a name that is no registered module the run
\* fails when the graph is built: it never gets to computing an order or to
\* the module loop, and no setup() or run() is invoked
C17_UnregisteredDependencyFailsAtBuild ==
    ~DepsRegistered =>
        /\ pc \in {"verify", "init", "cleanup", "done"}
        /\ pc \in {"cleanup", "done"} => fatal # NONE
        /\ \A n \in Names : setupCalls[n] = 0 /\ runCalls[n] = 0

\* C18: before any setup() or run() every tool required by a registered
\* module has been checked by verify_tools
C18_ToolsVerifiedBeforeModules ==
    \A n \in Names :
        (setupCalls[n] > 0 \/ runCalls[n] > 0) =>
            RequiredTools(cfgModules) \subseteq checkedTools

\* C19: the exit code is 0 for a run that completes and non-zero for a fatal
\* abort: a dependency cycle, exit chosen at tool verification, or an
\* exception before any module ran
C19_ExitCodeReflectsOutcome ==
    exit_code # <<>> =>
        /\ (fatal = NONE /\ "3" \notin toolPrompts) => exit_code = <<0>>
        /\ fatal = "ModuleDependencyError" => exit_code # <<0>>
        /\ "3" \in toolPrompts => exit_code # <<0>>
        /\ (fatal \notin {NONE, "SystemExit"}
              /\ \A n \in Names : setupCalls[n] = 0) => exit_code # <<0>>

(***************************************************************************)
(* Properties of the RateLimiter                                           *)
(***************************************************************************)
\* C7: the token count stays within [0, burst_size] whatever acquire calls
\* interleave and however time passes
C7_TokensWithinBurst ==
    /\ 0 <= tokens
    /\ tokens <= rl_burst * TokenUnit

C7_Witness ==
    /\ tokens = rl_burst * TokenUnit
    /\ last_update > 0
    /\ \E t \in Tasks : tpc[t] = "sleeping"
    /\ \E i \in 1..Len(callLog) : callLog[i].result = "True"

\* C8: on a fresh limiter with no time elapsing, the first burst_size
\* acquire(1) calls are granted on their first attempt and the next one is
\* not granted on its first attempt
C8_BurstThenThrottle ==
    \A k \in 1..Len(firstLog) :
        (\A j \in 1..k : firstLog[j].n = 1 /\ firstLog[j].time = 0) =>
            /\ k <= rl_burst => firstLog[k].granted
            /\ k = rl_burst + 1 => ~firstLog[k].granted /\ throttled_requests >= 1

C8_Witness ==
    /\ Len(firstLog) = rl_burst + 1
    /\ rl_burst = 2
    /\ \A j \in 1..Len(firstLog) : firstLog[j].n = 1 /\ firstLog[j].time = 0
    /\ firstLog[1].granted /\ firstLog[2].granted /\ ~firstLog[3].granted

\* C9: every acquire call ends within max_retries attempts, sleeping
\* min(wait_time, retry_delay) between attempts only, with result True, or
\* False once the attempts are exhausted; nothing else reaches the caller
C9_AcquireBoundedAndDenies ==
    \A i \in 1..Len(callLog) :
        LET c == callLog[i]
        IN  /\ c.attempts <= MaxRetries
            /\ c.result \in {"True", "False"}
            /\ Len(c.sleeps) = c.attempts - 1
            /\ \A k \in 1..Len(c.sleeps) :
                   c.sleeps[k].slept =
                       Min(c.n * TokenUnit - c.sleeps[k].had, RetryDelay * 2 * rl_cps)

\* the task t runs an attempt of acquire in this step
AttemptBy(t) == tpc[t] = "waiting" /\ tpc'[t] # "waiting"

\* the call of t ends with True in this step
GrantedTo(t) ==
    /\ AttemptBy(t)
    /\ Len(callLog') = Len(callLog) + 1
    /\ callLog'[Len(callLog')].result = "True"

\* min(burst_size, tokens + elapsed * calls_per_second * k) in token units,
\* k = 1.5 below half of burst_size and 1 otherwise
LazyRefill ==
    LET elapsed == now - last_update
        full == rl_burst * TokenUnit
        added == IF 2 * tokens < full
                 THEN 3 * elapsed * rl_cps
                 ELSE 2 * elapsed * rl_cps
    IN  IF tokens + added < full THEN tokens + added ELSE full

\* C23: an attempt of acquire first refills the bucket to
\* min(burst_size, tokens + elapsed * calls_per_second * k) and sets
\* last_update to now, then debits the request if it grants it; no other
\* step changes tokens or last_update
C23_LazyRefillOnly ==
    [][ /\ \A t \in Tasks : AttemptBy(t) =>
               /\ last_update' = now
               /\ tokens' = IF GrantedTo(t)
                            THEN LazyRefill - tcall[t].n * TokenUnit
                            ELSE LazyRefill
        /\ (\A t \in Tasks : ~AttemptBy(t)) =>
               /\ tokens' = tokens
               /\ last_update' = last_update ]_vars

\* a bucket emptied at time 0 holds 1.5 times one tick's refill after an
\* attempt one tick later
C23_Witness ==
    /\ rl_cps = 1 /\ rl_burst = 2
    /\ last_update = 1
    /\ tokens = 3
    /\ \E t \in Tasks : tpc[t] = "sleeping" /\ tcall[t].n = 1

\* acquire returns True to t1 in this step
GrantedToT1 ==
    /\ AttemptBy("t1")
    /\ tpc'["t1"] = "idle"
    /\ tokens' = LazyRefill - tcall["t1"].n * TokenUnit

\* C24: a task that keeps calling acquire(1) on a limiter it shares with
\* another acquiring task is granted a token again and again
C24_NoCallerStarves == []<><<GrantedToT1>>_vars

\* C33: a call acquire(n, retry=False) makes one attempt and does not sleep;
\* it ends with True, or with False when the tokens do not suffice.
C33_NoRetryDeniesAtOnce ==
    \A i \in 1..Len(callLog) :
        ~callLog[i].retry =>
            /\ callLog[i].attempts = 1
            /\ callLog[i].sleeps = <<>>
            /\ callLog[i].result \in {"True", "False"}

\* C32: throttled_requests never exceeds total_requests, so the throttle rate
\* throttled/total of _monitor_usage and get_stats lies between 0 and 1.
C32_ThrottledWithinTotal == throttled_requests <= total_requests

\* the token count the next attempt would find
AfterRefill == AddNewTokens(tokens, now - last_update, rl_cps, rl_burst)

\* C25: while a task sleeps inside acquire, a task that has called acquire
\* and for which the bucket holds enough tokens is not kept waiting by the
\* sleeper: the lock is free for it
C25_SleeperDoesNotBlockOthers ==
    \A t \in Tasks, u \in Tasks :
        ( /\ tpc[t] = "sleeping"
          /\ tpc[u] = "waiting"
          /\ EnoughTokens(AfterRefill, tcall[u].n) ) => lockHolder # t

(***************************************************************************)
(* Properties of run_with_retry                                            *)
(***************************************************************************)
AllFailed(outs) == \A j \in 1..Len(outs) : outs[j].kind = "exception"

C22_SleepsTwoToTheAttempt ==
    /\ \A i \in 1..Len(rt_sleeps) : rt_sleeps[i] = Pow2(i - 1)
    /\ Len(rt_sleeps) = IF rt_pc = "sleep" THEN rt_attempt + 1 ELSE rt_attempt
    /\ rt_pc = "sleep" =>
           /\ rt_wake = Pow2(rt_attempt + 1) - 1
           /\ rt_clock \in (rt_wake - Pow2(rt_attempt))..rt_wake
    /\ rt_pc # "sleep" => rt_clock = Pow2(rt_attempt) - 1
    /\ rt_pc = "raised" =>
           /\ Len(rt_sleeps) = rt_max_retries - 1
           /\ rt_max_retries = 3 => (rt_sleeps = <<1, 2>> /\ rt_clock = 3)

C22_Witness ==
    /\ rt_max_retries = 3
    /\ rt_pc = "raised"
    /\ Len(rt_outcomes) = 3
    /\ rt_sleeps = <<1, 2>>
    /\ rt_clock = 3

(***************************************************************************)
(* Properties of the ResultCache                                           *)
(***************************************************************************)
\* the task t finishes a get in this step
GetReturns(t) == cpc[t] = "locked" /\ cop[t].op = "get" /\ cpc'[t] = "idle"

\* the task t finishes a set in this step
SetReturns(t) == cpc[t] = "locked" /\ cop[t].op = "set" /\ cpc'[t] = "idle"

\* C11: get(k) returns a value only if it is the value of the latest set of k
\* and now - created < ttl; for a key never set and for a key whose ttl has
\* elapsed it returns None, and the expired entry is gone after the lookup
C11_GetServesOnlyFreshEntries ==
    [][ \A t \in CacheTasks : GetReturns(t) =>
          LET k == cop[t].key
              ret == cacheLog'[1].ret
          IN  /\ lastSet[k] = <<>> => ret = NONE
              /\ (lastSet[k] # <<>>
                    /\ cacheNow - lastSet[k][1].timestamp >= lastSet[k][1].ttl) =>
                     /\ ret = NONE
                     /\ k \notin CacheKeySet(cache')
              /\ ret # NONE =>
                     /\ lastSet[k] # <<>>
                     /\ ret = lastSet[k][1].data
                     /\ cacheNow - lastSet[k][1].timestamp < lastSet[k][1].ttl
      ]_vars

C11_Witness ==
    /\ cacheLog # <<>>
    /\ cacheLog[1].op = "get"
    /\ cacheLog[1].expired
    /\ cacheLog[1].ret = NONE
    /\ lastSet[cacheLog[1].key] # <<>>
    /\ lastSet[cacheLog[1].key][1].ttl > 0
    /\ cacheLog[1].key \notin CacheKeySet(cache)

\* C12: the cache never holds more than max_size entries; a set that finds
\* max_size entries evicts exactly one entry, one of oldest timestamp, before
\* it stores its own
C12_BoundedWithOldestEvicted ==
    /\ [](Len(cache) <= max_size)
    /\ [][ \A t \in CacheTasks :
             (SetReturns(t) /\ Len(cache) >= max_size) =>
                \E i \in 1..Len(cache) :
                   /\ \A j \in 1..Len(cache) :
                          cache[i].timestamp <= cache[j].timestamp
                   /\ cacheLog'[1].evicted = <<cache[i]>>
                   /\ SeqRange(cache') =
                         {e \in (SeqRange(cache) \ {cache[i]}) : e.key # cop[t].key}
                             \cup {lastSet'[cop[t].key][1]}
         ]_vars

C12_Witness ==
    /\ max_size = 2
    /\ cacheCalls = 3
    /\ cacheLog # <<>>
    /\ cacheLog[1].op = "set"
    /\ cacheLog[1].evicted # <<>>
    /\ cacheLog[1].evicted[1].key # cacheLog[1].key
    /\ cacheLog[1].evicted[1].timestamp < cacheNow
    /\ cacheLog[1].evicted[1].key \notin CacheKeySet(cache)

(***************************************************************************)
(* Properties of the SessionManager                                        *)
(***************************************************************************)
\* the latest save_results of m took the success path with results r, in a
\* SessionManager that a restart has replaced since
SavedBeforeRestart(m, r) ==
    /\ lastSave[m] # <<>>
    /\ lastSave[m][1].r = r
    /\ lastSave[m][1].ok
    /\ lastSave[m][1].restarts < smRestarts

\* this step is a get_results(m)
GetsResults(m) ==
    /\ smCalls' = smCalls + 1
    /\ smLog'[1].op = "get"
    /\ smLog'[1].module = m

\* nothing is stored for m, neither in memory nor on disk
NothingStored(m) == m \notin DOMAIN smResults /\ diskResults[m] = <<>>

\* this step is a save_results(m, r) that took the success path
SaveSucceeds(m, r) ==
    /\ smCalls' = smCalls + 1
    /\ smLog'[1].op = "save"
    /\ smLog'[1].module = m
    /\ lastSave'[m] = <<[r |-> r, ok |-> TRUE, restarts |-> smRestarts]>>

\* C13 as stated: a successful save_results(m, r) leaves m completed with a
\* results file in the session record, a SessionManager created after a
\* restart returns r itself from get_results(m), and get_results of a
\* module without stored results returns the empty dict
C13_RestartReturnsSavedResults ==
    [][ \A m \in SmModules :
          /\ \A r \in Blobs : SaveSucceeds(m, r) =>
                 /\ m \in DOMAIN smData'
                 /\ smData'[m].status = "completed"
                 /\ smData'[m].results_file
          /\ \A r \in Blobs : (SavedBeforeRestart(m, r) /\ GetsResults(m)) =>
                 smLog'[1].ret = r
          /\ (GetsResults(m) /\ NothingStored(m)) =>
                 smLog'[1].ret = EMPTY
      ]_vars

\* C13 amended: what comes back after the restart is r as JSON renders it
\* (json.loads(json.dumps(r))), which is r itself for results made of JSON
\* types
C13_RestartReturnsJsonOfSavedResults ==
    [][ \A m \in SmModules :
          /\ \A r \in Blobs : SaveSucceeds(m, r) =>
                 /\ m \in DOMAIN smData'
                 /\ smData'[m].status = "completed"
                 /\ smData'[m].results_file
          /\ \A r \in Blobs : (SavedBeforeRestart(m, r) /\ GetsResults(m)) =>
                 /\ smLog'[1].ret = JsonLoads(JsonDumps(r).text).value
                 /\ r = "r1" => smLog'[1].ret = r
          /\ (GetsResults(m) /\ NothingStored(m)) =>
                 smLog'[1].ret = EMPTY
      ]_vars

C13_Witness ==
    /\ smRestarts = 1
    /\ smLog # <<>>
    /\ smLog[1] = [op |-> "get", module |-> "A", ret |-> "r1", restarts |-> 1]
    /\ SavedBeforeRestart("A", "r1")
    /\ "A" \in DOMAIN smData /\ smData["A"].status = "completed"
    /\ "B" \notin DOMAIN smData

\* an archive_session call whose move, mkdir and save all succeeded has just
\* returned
ArchivedJustNow ==
    /\ smLog # <<>>
    /\ smLog[1].op = "archive"
    /\ smLog[1].ret = "ok"

\* C36: after archive_session the active session is fresh, its modules map is
\* empty and get_results returns empty for every module, while the archived
\* copy keeps the record of the previous session
C36_ArchiveLeavesFreshSession ==
    ArchivedJustNow =>
        /\ smData = <<>>
        /\ diskSession = <<(<<>>)>>
        /\ \A m \in SmModules : GetResults(smResults, diskResults, m).ret = EMPTY
        /\ diskArchive # <<>>

\* what does hold after archive_session: the session record and the output
\* directory are fresh and the archive has the old directory; the results in
\* memory are those of before the call
ArchiveLeavesFreshRecord ==
    ArchivedJustNow =>
        /\ smData = <<>>
        /\ diskSession = <<(<<>>)>>
        /\ \A m \in SmModules : diskResults[m] = <<>>
        /\ diskArchive # <<>>

(***************************************************************************)
(* Properties of execute_tool                                              *)
(***************************************************************************)
\* C20: a call whose binary is not on the search path returns a failure
\* result at once: one attempt, no wait, the tool process never spawned
C20_MissingToolFailsWithoutRetry ==
    /\ \A i \in 1..Len(et_log) :
          (et_log[i].cmd = "tool" /\ ~et_log[i].resolvable) =>
              /\ et_log[i].outcome = "returned"
              /\ et_log[i].result = ToolResult(FALSE, "not found", -1)
              /\ et_log[i].attempts = 1
              /\ et_log[i].waited = 0
              /\ et_log[i].spawned = 0
    /\ (et_pc # "idle" /\ et_cmd = "tool" /\ ~et_resolvable) =>
          /\ et_pc = "check"
          /\ et_attempt = 1
          /\ et_spawned = 0

C20_Witness ==
    /\ Len(et_log) = 2
    /\ et_log[1].cmd = "tool" /\ et_log[1].resolvable /\ et_log[1].spawned = 1
    /\ et_log[2].cmd = "tool" /\ ~et_log[2].resolvable
    /\ et_log[2].result = ToolResult(FALSE, "not found", -1)

\* C21: a call spawns the tool process at most once and is not retried
\* once the process was spawned; its result has success = TRUE exactly
\* when the process exited with code 0 before the timeout, a non-zero exit
\* gives a failure with that exit code and the decoded stderr, and a
\* timeout leaves the process killed and gives a failure
C21_SuccessIffExitZero ==
    \A i \in 1..Len(et_log) :
       LET c == et_log[i] IN
          /\ c.spawned <= 1
          /\ (c.spawned = 1) => (c.attempts = 1 /\ c.outcome = "returned")
          /\ c.result.success <=> (c.proc = "exit0")
          /\ (c.proc = "exit1") =>
                 /\ c.result.exit_code = 1
                 /\ c.result.error \in {NONE, "text"}
          /\ (c.proc = "killed") => c.result = ToolResult(FALSE, "timed out", -1)

(***************************************************************************)
(* Properties of ToolExecutor.run_tool                                     *)
(***************************************************************************)
\* C26: a run_tool call spawns its process only when the acquire it made on
\* the rate limiter returned True; after a denied acquire nothing is spawned
C26_SpawnOnlyAfterGrant ==
    \A t \in Tasks : xt_proc[t] => xt_acq[t] = "True"

(***************************************************************************)
(* Properties of DiscoveryModule.run                                       *)
(***************************************************************************)
\* the set union of the outputs of the tools that ran
UnionOfOutputs == UNION {ElemsOf(mg_out[t]) : t \in mg_installed}

NoDuplicates(seq) ==
    \A i \in 1..Len(seq), j \in 1..Len(seq) : seq[i] = seq[j] => i = j

\* the place of self.tools at which the item x is first reported
FirstReportedBy(x) ==
    CHOOSE i \in 1..Len(ToolOrder) :
        /\ x \in ElemsOf(mg_out[ToolOrder[i]])
        /\ \A j \in 1..(i - 1) : x \notin ElemsOf(mg_out[ToolOrder[j]])

\* the place of x in a list that holds it
FirstIndex(seq, x) ==
    CHOOSE i \in 1..Len(seq) :
        seq[i] = x /\ \A j \in 1..(i - 1) : seq[j] # x

\* x comes before y in the outputs read tool by tool in the order of
\* self.tools
ReportedBefore(x, y) ==
    \/ FirstReportedBy(x) < FirstReportedBy(y)
    \/ /\ FirstReportedBy(x) = FirstReportedBy(y)
       /\ FirstIndex(mg_out[ToolOrder[FirstReportedBy(x)]], x)
              < FirstIndex(mg_out[ToolOrder[FirstReportedBy(x)]], y)

\* the list is fixed by the outputs alone, whatever order the tasks
\* completed in
OrderedByToolsAlone(seq) ==
    \A i \in 1..Len(seq), j \in 1..Len(seq) :
        i < j => ReportedBefore(seq[i], seq[j])

Phase(m) ==
    IF m \in monitoring_tasks THEN "monitoring"
    ELSE IF metrics[m] = <<>> THEN "idle" ELSE "stopped"

\* C28: a module whose monitoring was stopped stays stopped and its metrics
\* record is not changed by any later step of the monitor
C28_StoppedRecordIsFrozen ==
    [][ \A m \in MonModules :
           Phase(m) = "stopped" =>
               /\ m \notin monitoring_tasks'
               /\ metrics'[m] = metrics[m] ]_vars

\* the number of successful stops among the given flags
RECURSIVE CountTrue(_)
CountTrue(flags) ==
    IF flags = <<>> THEN 0
    ELSE (IF Head(flags) THEN 1 ELSE 0) + CountTrue(Tail(flags))

IsOne(rate) == rate[1] = rate[2]

IsZero(rate) == rate[1] = 0

\* retries counts the record_tool_retry calls since the tool's last start,
\* and a tool that was never started has no metrics whatever was called
RetriesCountedSinceStart ==
    \A t \in MonTools :
        IF tool_metrics[t] = <<>>
        THEN GetToolPerformance(t) = <<>> /\ tm_retried[t] = 0 /\ tm_stops[t] = <<>>
        ELSE GetToolPerformance(t)[1].retries = tm_retried[t]

\* C30 as stated: retries is the number of record_tool_retry calls since
\* start_tool_monitoring, success_rate is 1.0 after a stop with
\* success=True and 0.0 after a stop with success=False, and stops and
\* retries of a tool that was never started change nothing
C30_RateFollowsLastStop ==
    /\ RetriesCountedSinceStart
    /\ \A t \in MonTools :
          tm_stops[t] # <<>> =>
              LET rate == GetToolPerformance(t)[1].success_rate
              IN  IF tm_stops[t][Len(tm_stops[t])]
                  THEN IsOne(rate)
                  ELSE IsZero(rate)

\* C30, amended: success_rate is the share of stops with success=True among
\* the stops since the tool's last start, hence 1.0 or 0.0 after the first
\* of them
C30_RateIsShareOfSuccessfulStops ==
    /\ RetriesCountedSinceStart
    /\ \A t \in MonTools :
          tm_stops[t] # <<>> =>
              LET rate == GetToolPerformance(t)[1].success_rate
              IN  /\ rate = <<CountTrue(tm_stops[t]), Len(tm_stops[t])>>
                  /\ Len(tm_stops[t]) = 1 =>
                         IF tm_stops[t][1] THEN IsOne(rate) ELSE IsZero(rate)

\* a tool started, retried twice and stopped with success=False, next to a
\* tool that was never started
C30_Witness ==
    /\ mon_calls = MaxMonCalls
    /\ tm_retried["nmap"] = 2
    /\ tm_stops["nmap"] = <<FALSE>>
    /\ GetToolPerformance("nmap")[1].retries = 2
    /\ IsZero(GetToolPerformance("nmap")[1].success_rate)
    /\ GetToolPerformance("ffuf") = <<>>

\* a component that is not exercised stays in its constructed state
FwIdle ==
    /\ cfgModules = <<"A">>
    /\ cfgDeps = [n \in {"A"} |-> {}]
    /\ pc = "verify"
    /\ modules = <<>>
    /\ graphNodes = <<>>
    /\ graphEdges = {}
    /\ module_states = <<>>
    /\ module_order = <<>>
    /\ idx = 1
    /\ brk = FALSE
    /\ pendingErr = NONE
    /\ fatal = NONE
    /\ running = FALSE
    /\ session_data = <<>>
    /\ session_file = <<>>
    /\ summary = <<>>
    /\ setupCalls = [n \in Names |-> 0]
    /\ runCalls = [n \in Names |-> 0]
    /\ executing = {}
    /\ finished = {}
    /\ prompts = <<>>
    /\ loaded = <<>>
    /\ checkedTools = {}
    /\ toolPrompts = {}
    /\ ioFailed = FALSE
    /\ exit_code = <<>>

RlIdle ==
    /\ rl_cps = 1
    /\ rl_burst = 1
    /\ tokens = TokenUnit
    /\ last_update = 0
    /\ now = 0
    /\ lockHolder = NONE
    /\ waiters = <<>>
    /\ tpc = [t \in Tasks |-> "idle"]
    /\ tcall = [t \in Tasks |-> IdleCall]
    /\ total_requests = 0
    /\ throttled_requests = 0
    /\ intervals = 0
    /\ firstLog = <<>>
    /\ callLog = <<>>

RtIdle ==
    /\ rt_max_retries = 3
    /\ rt_pc = "call"
    /\ rt_attempt = 0
    /\ rt_clock = 0
    /\ rt_wake = 0
    /\ rt_result = NoResult
    /\ rt_outcomes = <<>>
    /\ rt_sleeps = <<>>

CacheIdle ==
    /\ max_size = 1
    /\ cache = <<>>
    /\ cacheLock = NONE
    /\ cacheWaiters = <<>>
    /\ cpc = [t \in CacheTasks |-> "idle"]
    /\ cop = [t \in CacheTasks |-> IdleOp]
    /\ cacheNow = 0
    /\ cacheCalls = 0
    /\ lastSet = [k \in CacheKeys |-> <<>>]
    /\ cacheLog = <<>>

SmIdle == SmInit

EtIdle == EtInit

XtIdle == XtInit

MgIdle ==
    /\ mg_installed = {}
    /\ mg_out = [t \in DiscoveryTools |-> <<>>]
    /\ mg_pc = "start"
    /\ mg_tasks = <<>>
    /\ mg_completed = <<>>
    /\ mg_i = 1
    /\ mg_acc = <<>>
    /\ mg_saved = FALSE
    /\ mg_ret = <<>>

MonIdle == MonInit

\* ---------------------------------------------------------------------
\* Tool verification: Framework.verify_tools (framework.py 97-177) and
\* ToolChecker.verify_all_tools (tool_checker.py 222-270)
\* ---------------------------------------------------------------------
\* A version string "a.b.c" is held as the list [int(x) for x in
\* s.split('.')] that _compare_versions builds from it; None is the empty
\* list.  Components range over 0..MaxComp.
MaxComp == 2

VTools == {"subfinder", "amass"}

NoVersion == <<>>

VersionsOfLength(n) == [1..n -> 0..MaxComp]

\* get_tool_version: group(1) of the first pattern that matches, which is
\* digits.digits.digits or digits.digits; None when nothing matches
DetectedVersions == VersionsOfLength(3) \cup VersionsOfLength(2)

\* the minimum versions of the requirement tables have three components;
\* get_required_tools may give None
MinVersions == VersionsOfLength(3) \cup {NoVersion}

\* while len(x) < len(y): x.append(0)
PadTo(parts, n) ==
    [i \in 1..Max(Len(parts), n) |-> IF i <= Len(parts) THEN parts[i] ELSE 0]

\* Python's < on two lists of int
ListLess(a, b) ==
    \/ \E i \in 1..Len(a) :
          /\ i <= Len(b)
          /\ a[i] < b[i]
          /\ \A j \in 1..(i - 1) : a[j] = b[j]
    \/ /\ Len(a) < Len(b)
       /\ \A j \in 1..Len(a) : a[j] = b[j]

\* ToolChecker._compare_versions: True when current is older than minimum
CompareVersions(current, minimum) ==
    LET n == Max(Len(current), Len(minimum))
    IN  ListLess(PadTo(current, n), PadTo(minimum, n))

ToolResultEntry(installed, version, min_version, status) ==
    [installed |-> installed, version |-> version,
     min_version |-> min_version, status |-> status]

\* body of the loop of Framework.verify_tools for one tool
FwClassify(min_version, exists, current_version) ==
    IF ~exists
    THEN ToolResultEntry(FALSE, NoVersion, min_version, "missing")
    ELSE IF current_version # NoVersion
         THEN IF /\ min_version # NoVersion
                 /\ ~CompareVersions(current_version, min_version)
              THEN ToolResultEntry(TRUE, current_version, min_version, "outdated")
              ELSE ToolResultEntry(TRUE, current_version, min_version, "ok")
         ELSE ToolResultEntry(TRUE, NoVersion, min_version, "unknown")

\* body of the loop of ToolChecker.verify_all_tools for one tool
TcClassify(min_version, exists, current_version) ==
    IF ~exists
    THEN ToolResultEntry(FALSE, NoVersion, min_version, "missing")
    ELSE LET is_outdated ==
                 /\ current_version # NoVersion
                 /\ min_version # NoVersion
                 /\ CompareVersions(current_version, min_version)
         IN  ToolResultEntry(TRUE, current_version, min_version,
                             IF is_outdated THEN "outdated" ELSE "ok")

\* what check_tool and get_tool_version can report about one tool
ToolObservations ==
    {[exists |-> FALSE, version |-> NoVersion]}
    \cup {[exists |-> TRUE, version |-> v] : v \in DetectedVersions \cup {NoVersion}}

NoResults == [t \in {} |-> NoVersion]

\* a requirement table with one tool; no verification has run
VtInit ==
    /\ required_tools \in UNION {[{t} -> MinVersions] : t \in VTools}
    /\ verifier = "none"
    /\ results = NoResults

\* Framework.verify_tools: the loop over required_tools
FwVerifyTools ==
    /\ \E obs \in [DOMAIN required_tools -> ToolObservations] :
          results' = [t \in DOMAIN required_tools |->
                         FwClassify(required_tools[t], obs[t].exists,
                                    obs[t].version)]
    /\ verifier' = "framework"
    /\ UNCHANGED required_tools
    /\ UNCHANGED <<fwVars, rlVars, rtVars, cacheVars, smVars, etVars, xtVars,
                   mgVars, monVars, lateVars>>

\* ToolChecker.verify_all_tools: the loop over required_tools
TcVerifyAllTools ==
    /\ \E obs \in [DOMAIN required_tools -> ToolObservations] :
          results' = [t \in DOMAIN required_tools |->
                         TcClassify(required_tools[t], obs[t].exists,
                                    obs[t].version)]
    /\ verifier' = "checker"
    /\ UNCHANGED required_tools
    /\ UNCHANGED <<fwVars, rlVars, rtVars, cacheVars, smVars, etVars, xtVars,
                   mgVars, monVars, lateVars>>

VtNext == FwVerifyTools \/ TcVerifyAllTools

VtIdle ==
    /\ required_tools = NoResults
    /\ verifier = "none"
    /\ results = NoResults

\* component i of a version, missing components counting as 0
Comp(v, i) == IF i <= Len(v) THEN v[i] ELSE 0

\* a is lower than b: at the first component where they differ, a's is smaller
LowerVersion(a, b) ==
    \E i \in 1..Max(Len(a), Len(b)) :
        /\ Comp(a, i) < Comp(b, i)
        /\ \A j \in 1..(i - 1) : Comp(a, j) = Comp(b, j)

\* an installed tool whose version and minimum are both known
Compared(r) ==
    r.installed /\ r.version # NoVersion /\ r.min_version # NoVersion

OutdatedIffLower ==
    \A t \in DOMAIN results :
        Compared(results[t]) =>
            /\ results[t].status = "outdated"
                  <=> LowerVersion(results[t].version, results[t].min_version)
            /\ results[t].status = "ok"
                  <=> ~LowerVersion(results[t].version, results[t].min_version)

\* C29: tool verification reports an installed tool as outdated exactly when
\* its version is lower than the required minimum, component by component
\* as numbers, and as ok when it is equal or higher.
C29_OutdatedIffLower == verifier # "none" => OutdatedIffLower

\* the same statement for ToolChecker.verify_all_tools alone
CheckerOutdatedIffLower == verifier = "checker" => OutdatedIffLower

\* Framework.verify_tools has reported a tool whose version is above its
\* minimum
NewerToolVerified ==
    /\ verifier = "framework"
    /\ \E t \in DOMAIN results :
          /\ Compared(results[t])
          /\ LowerVersion(results[t].min_version, results[t].version)

\* ---------------------------------------------------------------------
\* Framework.cleanup (framework.py 357-380) as run by the finally clause
\* of Framework.start (309-313), and the cleanup() of the modules
\* ---------------------------------------------------------------------
MaxTasks == 2

ClModules == {"A", "B"}

ClTaskIds == 1..MaxTasks

\* how the try body of start() was left: return at line 233, end of the body,
\* break of the module loop, an Exception caught at 309, SystemExit
StartEndings == {"verify_abort", "completed", "halted", "fatal", "SystemExit"}

\* self.modules in insertion order
ClModuleLists ==
    {<<>>} \cup {<<m>> : m \in ClModules}
           \cup {p \in ClModules \X ClModules : p[1] # p[2]}

\* a slot of running_tasks: no task, a task still running, a task that is done
ClTaskStates == {"none", "running", "done"}

\* what happens inside one module.cleanup(): nothing, rate_limiter.
\* stop_monitoring() raises, shutil.rmtree raises (both caught by the module's
\* own except clause), or an exception leaves cleanup()
CleanupOutcomes == {"ok", "stop_monitoring_raises", "rmtree_raises", "raises"}

\* task.cancel() for every task that is not done, then
\* asyncio.gather(*running_tasks, return_exceptions=True)
CancelAndGather(tasks) ==
    [t \in DOMAIN tasks |-> IF tasks[t] = "running" THEN "cancelled" ELSE tasks[t]]

\* the running_tasks of a module after its cleanup()
TasksAfterCleanup(tasks, outcome) ==
    IF outcome \in {"ok", "rmtree_raises"} THEN CancelAndGather(tasks) ELSE tasks

\* mutant: an exception leaving module.cleanup() ends the loop over the modules
AfterModuleCleanupAbort(i, n, outcome) == IF outcome = "raises" THEN n + 1 ELSE i + 1

\* the per-module try/except of Framework.cleanup: the loop goes on
AfterModuleCleanup(i, n, outcome) == i + 1

ClInit ==
    /\ cl_pc = "start"
    /\ cl_ending = "none"
    /\ cl_modules = <<>>
    /\ cl_tasks = [m \in ClModules |-> [t \in ClTaskIds |-> "none"]]
    /\ cl_i = 1
    /\ cl_outcome = [m \in ClModules |-> "none"]
    /\ cl_monitoring = FALSE
    /\ cl_save = "none"
    /\ cl_running = FALSE

\* the try body of start() is left; self.modules is filled by
\* _initialize_modules, which runs after verify_tools and after running = True
ClStartEnds ==
    /\ cl_pc = "start"
    /\ \E ending \in StartEndings, mods \in ClModuleLists,
          tasks \in [ClModules -> [ClTaskIds -> ClTaskStates]] :
          /\ ending = "verify_abort" => mods = <<>>
          /\ ending \in {"completed", "halted", "SystemExit"} => mods # <<>>
          /\ \A m \in ClModules :
                m \notin SeqRange(mods) => tasks[m] = [t \in ClTaskIds |-> "none"]
          /\ cl_ending' = ending
          /\ cl_modules' = mods
          /\ cl_tasks' = tasks
          /\ cl_running' = (ending # "verify_abort")
          /\ cl_monitoring' = (ending \in {"completed", "halted", "SystemExit"})
    /\ cl_pc' = "stop_monitoring"
    /\ UNCHANGED <<cl_i, cl_outcome, cl_save>>
    /\ UNCHANGED clRest

\* cleanup(): await self.performance_monitor.stop_monitoring()
ClStopMonitoring ==
    /\ cl_pc = "stop_monitoring"
    /\ cl_monitoring' = FALSE
    /\ cl_pc' = "modules"
    /\ UNCHANGED <<cl_ending, cl_modules, cl_tasks, cl_i, cl_outcome, cl_save,
                   cl_running>>
    /\ UNCHANGED clRest

\* one iteration of `for module in self.modules.values()`
ClModuleCleanup ==
    /\ cl_pc = "modules"
    /\ cl_i <= Len(cl_modules)
    /\ \E outcome \in CleanupOutcomes :
          LET m == cl_modules[cl_i]
          IN  /\ cl_tasks' = [cl_tasks EXCEPT
                                 ![m] = TasksAfterCleanup(cl_tasks[m], outcome)]
              /\ cl_outcome' = [cl_outcome EXCEPT ![m] = outcome]
              /\ cl_i' = AfterModuleCleanup(cl_i, Len(cl_modules), outcome)
    /\ UNCHANGED <<cl_pc, cl_ending, cl_modules, cl_monitoring, cl_save, cl_running>>
    /\ UNCHANGED clRest

\* await self.session_manager.save_session(), which logs its own errors
ClSaveSession ==
    /\ cl_pc = "modules"
    /\ cl_i > Len(cl_modules)
    /\ \E session_ok \in BOOLEAN :
          cl_save' = IF session_ok THEN "saved" ELSE "failed"
    /\ cl_pc' = "finally"
    /\ UNCHANGED <<cl_ending, cl_modules, cl_tasks, cl_i, cl_outcome,
                   cl_monitoring, cl_running>>
    /\ UNCHANGED clRest

\* finally: self.running = False
ClFinally ==
    /\ cl_pc = "finally"
    /\ cl_running' = FALSE
    /\ cl_pc' = "done"
    /\ UNCHANGED <<cl_ending, cl_modules, cl_tasks, cl_i, cl_outcome,
                   cl_monitoring, cl_save>>
    /\ UNCHANGED clRest

ClNext ==
    \/ ClStartEnds
    \/ ClStopMonitoring
    \/ ClModuleCleanup
    \/ ClSaveSession
    \/ ClFinally

ClIdle == ClInit

\* cleanup() of module m was called
CleanupCalled(m) == cl_outcome[m] # "none"

\* no task tracked by m is left running
NoTaskLeftRunning(m) == \A t \in ClTaskIds : cl_tasks[m][t] # "running"

EarlyIdle == FwIdle /\ RlIdle /\ RtIdle /\ CacheIdle /\ SmIdle /\ EtIdle /\ XtIdle
             /\ MgIdle /\ MonIdle /\ VtIdle


\* ---------------------------------------------------------------------
\* ToolExecutor.run_with_retry (tools.py 100-115)
\* ---------------------------------------------------------------------
MaxToolRetries == 3

MaxRetryDelay == 2

\* what one run_tool gives back: run_tool turns every Exception into a failed
\* ToolResult, so a run ends with a result and never raises
RunToolResults ==
    {[success |-> TRUE, exit_code |-> 0],
     [success |-> FALSE, exit_code |-> 1],
     [success |-> FALSE, exit_code |-> -1]}

\* mutant: sleeps after every failed attempt
SleepsAfterAttemptAlways(attempt, max_retries) == attempt < max_retries

\* if attempt < max_retries - 1
SleepsAfterAttempt(attempt, max_retries) == attempt < max_retries - 1

TrInit ==
    /\ tr_pc = "idle"
    /\ tr_max = 0
    /\ tr_delay = 0
    /\ tr_attempt = 0
    /\ tr_results = <<>>
    /\ tr_sleeps = <<>>
    /\ tr_ret = <<>>

\* run_with_retry(cmd, max_retries, retry_delay) is called
TrCall ==
    /\ tr_pc = "idle"
    /\ tr_max' \in 1..MaxToolRetries
    /\ tr_delay' \in 1..MaxRetryDelay
    /\ tr_pc' = "run"
    /\ UNCHANGED <<tr_attempt, tr_results, tr_sleeps, tr_ret>>
    /\ UNCHANGED trRest

\* one iteration of the loop up to the sleep: run_tool, return on success
TrRunTool ==
    /\ tr_pc = "run"
    /\ tr_attempt < tr_max
    /\ \E result \in RunToolResults :
          /\ tr_results' = Append(tr_results, result)
          /\ IF result.success
             THEN /\ tr_ret' = <<result>>
                  /\ tr_pc' = "done"
                  /\ UNCHANGED tr_attempt
             ELSE IF SleepsAfterAttempt(tr_attempt, tr_max)
                  THEN /\ tr_pc' = "sleep"
                       /\ UNCHANGED <<tr_attempt, tr_ret>>
                  ELSE /\ tr_attempt' = tr_attempt + 1
                       /\ tr_pc' = "run"
                       /\ UNCHANGED tr_ret
    /\ UNCHANGED <<tr_max, tr_delay, tr_sleeps>>
    /\ UNCHANGED trRest

\* await asyncio.sleep(retry_delay), then the next iteration
TrSleep ==
    /\ tr_pc = "sleep"
    /\ tr_sleeps' = Append(tr_sleeps, tr_delay)
    /\ tr_attempt' = tr_attempt + 1
    /\ tr_pc' = "run"
    /\ UNCHANGED <<tr_max, tr_delay, tr_results, tr_ret>>
    /\ UNCHANGED trRest

\* the loop is exhausted: return result
TrReturnLast ==
    /\ tr_pc = "run"
    /\ tr_attempt >= tr_max
    /\ tr_ret' = <<tr_results[Len(tr_results)]>>
    /\ tr_pc' = "done"
    /\ UNCHANGED <<tr_max, tr_delay, tr_attempt, tr_results, tr_sleeps>>
    /\ UNCHANGED trRest

TrNext == TrCall \/ TrRunTool \/ TrSleep \/ TrReturnLast

TrIdle == TrInit

\* C34: run_with_retry with max_retries >= 1 runs the tool at most
\* max_retries times, returns the first successful result without running
\* again, returns the last failed result after max_retries failed runs, and
\* sleeps retry_delay between two attempts and not after the last one.
C34_BoundedRunsFirstSuccessOrLastFailure ==
    /\ Len(tr_results) <= tr_max
    /\ \A k \in 1..Len(tr_results) : tr_results[k].success => k = Len(tr_results)
    /\ tr_pc = "done" =>
          LET n == Len(tr_results)
          IN  /\ n >= 1
              /\ tr_ret = <<tr_results[n]>>
              /\ ~tr_results[n].success => n = tr_max
              /\ Len(tr_sleeps) = n - 1
              /\ \A k \in 1..Len(tr_sleeps) : tr_sleeps[k] = tr_delay

\* three failed runs with two sleeps in between, and the last failure returned
C34_Witness ==
    /\ tr_pc = "done"
    /\ tr_max = 3
    /\ Len(tr_results) = 3
    /\ ~tr_ret[1].success
    /\ tr_ret[1].exit_code = -1
    /\ tr_results[1].exit_code = 1
    /\ Len(tr_sleeps) = 2


\* ---------------------------------------------------------------------
\* core.utils.session.SessionManager: module status and should_run_module
\* ---------------------------------------------------------------------
MaxSsCalls == 3

SsModules == {"web_probe", "discovery"}

\* the status strings the callers pass to update_module_status
SsStatuses == {"pending", "running", "completed", "error", "skipped"}

\* session.json as json.dumps(self.session) wrote it, and what an interrupted
\* write leaves of it
Written(mods) == [json |-> TRUE, modules |-> mods]
Truncated == [json |-> FALSE, modules |-> <<>>]

\* load_or_create_session: session.json parsed, or a fresh session when the
\* file is absent or cannot be parsed
LoadOrCreateSession(file) ==
    IF file = <<>> THEN <<>>
    ELSE IF file[1].json THEN file[1].modules ELSE <<>>

\* mutant: a module recorded as running is run again
ShouldRunStatusesWithRunning == {"pending", "error", "running"}

\* status in ['pending', 'error']
ShouldRunStatuses == {"pending", "error"}

\* should_run_module(module_name) on the modules map of the session
ShouldRunModule(mods, m) ==
    IF m \notin DOMAIN mods
    THEN TRUE
    ELSE mods[m] \in ShouldRunStatuses

SsInit ==
    /\ ss_session = <<>>
    /\ ss_file = <<>>
    /\ ss_calls = 0
    /\ ss_log = <<>>

\* update_module_status(module_name, status): the record is made if absent,
\* its status set and the session saved; a failed write raises inside the
\* method, which logs it
SsUpdateModuleStatus ==
    /\ ss_calls < MaxSsCalls
    /\ ss_calls' = ss_calls + 1
    /\ \E m \in SsModules, status \in SsStatuses :
          /\ ss_session' = Put(ss_session, m, status)
          /\ \/ ss_file' = <<Written(ss_session')>>
             \/ ss_file' = <<Truncated>>
             \/ UNCHANGED ss_file
    /\ UNCHANGED ss_log
    /\ UNCHANGED ssRest

\* update_tool_status(module_name, tool_name, status): the record is made if
\* absent, as asdict(ModuleStatus(name)) with status 'pending' and tools
\* None; the lookup in tools then raises and the method returns before it
\* saves
SsUpdateToolStatus ==
    /\ ss_calls < MaxSsCalls
    /\ ss_calls' = ss_calls + 1
    /\ \E m \in SsModules :
          ss_session' = IF m \in DOMAIN ss_session
                        THEN ss_session
                        ELSE Put(ss_session, m, "pending")
    /\ UNCHANGED <<ss_file, ss_log>>
    /\ UNCHANGED ssRest

\* should_run_module(module_name), as WebProbe.run calls it
SsShouldRunModule ==
    /\ ss_calls < MaxSsCalls
    /\ ss_calls' = ss_calls + 1
    /\ \E m \in SsModules :
          ss_log' = <<[module |-> m, ret |-> ShouldRunModule(ss_session, m),
                       modules |-> ss_session]>>
    /\ UNCHANGED <<ss_session, ss_file>>
    /\ UNCHANGED ssRest

\* the process ends and SessionManager(domain, output_dir) is constructed
\* again
SsRestart ==
    /\ ss_calls < MaxSsCalls
    /\ ss_calls' = ss_calls + 1
    /\ ss_session' = LoadOrCreateSession(ss_file)
    /\ UNCHANGED <<ss_file, ss_log>>
    /\ UNCHANGED ssRest

SsNext ==
    \/ SsUpdateModuleStatus
    \/ SsUpdateToolStatus
    \/ SsShouldRunModule
    \/ SsRestart

SsIdle == SsInit

\* C37: should_run_module(m) returns true exactly when m has no record in
\* the session or its recorded status is pending or error; a module recorded
\* as completed, skipped or running is not run again
C37_RunsOnlyUnrecordedPendingOrError ==
    ss_log # <<>> =>
        LET m == ss_log[1].module
            mods == ss_log[1].modules
        IN  /\ ss_log[1].ret = TRUE <=>
                  \/ m \notin DOMAIN mods
                  \/ mods[m] \in {"pending", "error"}
            /\ (m \in DOMAIN mods
                /\ mods[m] \in {"completed", "skipped", "running"}) =>
                   ss_log[1].ret = FALSE

\* a module recorded as running, in memory and in session.json, is asked
\* about and not run again
C37_Witness ==
    /\ ss_log # <<>>
    /\ ss_log[1].module = "web_probe"
    /\ "web_probe" \in DOMAIN ss_log[1].modules
    /\ ss_log[1].modules["web_probe"] = "running"
    /\ ss_log[1].ret = FALSE
    /\ ss_file = <<Written(ss_session)>>


\* ---------------------------------------------------------------------
\* The two event buses: core.utils.event_bus.EventBus, which keeps a list
\* of handlers per event, and core.modules.base.EventBus, which keeps a set
\* of callbacks per event type
\* ---------------------------------------------------------------------
MaxEbCalls == 4

MaxHandlers == 2      \* handlers one event holds at most

Events == {"e1", "e2"}

EbHandlers == {"h1", "h2"}

\* what a handler does when it is called with the event: a plain function
\* that returns, raises an Exception or unsubscribes itself from the event,
\* or a coroutine function that returns or raises
HandlerBehaviours ==
    {"returns", "raises", "unsubscribes", "async_returns", "async_raises"}

\* list.remove(h): the first occurrence goes
RemoveFirst(s, h) ==
    LET i == CHOOSE k \in 1..Len(s) : s[k] = h /\ \A j \in 1..(k - 1) : s[j] # h
    IN  SubSeq(s, 1, i - 1) \o SubSeq(s, i + 1, Len(s))

\* unsubscribe of core.utils.event_bus.EventBus on the list of one event
Unsubscribe(s, h) == IF h \in SeqRange(s) THEN RemoveFirst(s, h) ELSE s

\* the for loop of core.utils.event_bus.EventBus.emit over
\* self.handlers[event], position i, with the handlers called so far: the
\* list iterator looks at the list as it is at each step
RECURSIVE EmitLoop(_, _, _, _)
EmitLoop(list, i, beh, called) ==
    IF i > Len(list)
    THEN [handlers |-> list, invoked |-> called, raised |-> FALSE]
    ELSE LET h == list[i]
             after == IF beh[h] = "unsubscribes" THEN Unsubscribe(list, h)
                      ELSE list
         IN  EmitLoop(after, i + 1, beh, Append(called, h))

\* the for loop of core.modules.base.EventBus.emit over the set
\* self.subscribers[event_type], visited in the order given: a callback that
\* discards itself changes the size of the set, and the set iterator raises
\* RuntimeError when it is asked for the next element
RECURSIVE BaseEmitLoop(_, _, _, _)
BaseEmitLoop(order, i, beh, called) ==
    IF i > Len(order)
    THEN [handlers |-> order, invoked |-> called, raised |-> FALSE]
    ELSE LET h == order[i]
         IN  IF beh[h] = "unsubscribes"
             THEN [handlers |-> Unsubscribe(order, h),
                   invoked |-> Append(called, h), raised |-> TRUE]
             ELSE BaseEmitLoop(order, i + 1, beh, Append(called, h))

\* the orders in which a set of callbacks can be iterated
Orders(set) ==
    {s \in UNION {[1..n -> set] : n \in {Cardinality(set)}} :
        \A a, b \in 1..Len(s) : a # b => s[a] # s[b]}

EbInit ==
    /\ eb_kind \in {"utils", "base"}
    /\ eb_handlers = [e \in Events |-> <<>>]
    /\ eb_removed = [e \in Events |-> {}]
    /\ eb_calls = 0
    /\ eb_log = <<>>

\* subscribe(event, handler): appended to the list, or added to the set
EbSubscribe ==
    /\ eb_calls < MaxEbCalls
    /\ eb_calls' = eb_calls + 1
    /\ \E e \in Events, h \in EbHandlers :
          /\ \/ /\ eb_kind = "utils"
                /\ Len(eb_handlers[e]) < MaxHandlers
                /\ eb_handlers' = [eb_handlers EXCEPT ![e] = Append(@, h)]
             \/ /\ eb_kind = "base"
                /\ eb_handlers' = [eb_handlers EXCEPT
                                     ![e] = IF h \in SeqRange(@) THEN @
                                            ELSE Append(@, h)]
          /\ eb_removed' = [eb_removed EXCEPT ![e] = @ \ {h}]
    /\ eb_log' = <<>>
    /\ UNCHANGED eb_kind
    /\ UNCHANGED ebRest

\* unsubscribe(event, handler): list.remove, or set.discard
EbUnsubscribe ==
    /\ eb_calls < MaxEbCalls
    /\ eb_calls' = eb_calls + 1
    /\ \E e \in Events, h \in EbHandlers :
          /\ eb_handlers' = [eb_handlers EXCEPT ![e] = Unsubscribe(@, h)]
          /\ eb_removed' = [eb_removed EXCEPT ![e] = @ \cup {h}]
    /\ eb_log' = <<>>
    /\ UNCHANGED eb_kind
    /\ UNCHANGED ebRest

\* emit(event, data)
EbEmit ==
    /\ eb_calls < MaxEbCalls
    /\ eb_calls' = eb_calls + 1
    /\ \E e \in Events, beh \in [EbHandlers -> HandlerBehaviours] :
          \E order \in IF eb_kind = "utils" THEN {eb_handlers[e]}
                       ELSE Orders(SeqRange(eb_handlers[e])) :
             LET r == IF eb_kind = "utils"
                      THEN EmitLoop(order, 1, beh, <<>>)
                      ELSE BaseEmitLoop(order, 1, beh, <<>>)
                 gone == {h \in SeqRange(r.invoked) : beh[h] = "unsubscribes"}
             IN  /\ eb_handlers' = [eb_handlers EXCEPT ![e] = r.handlers]
                 /\ eb_removed' = [eb_removed EXCEPT ![e] = @ \cup gone]
                 /\ eb_log' = <<[event |-> e, beh |-> beh,
                                 before |-> eb_handlers[e],
                                 removed |-> eb_removed[e],
                                 invoked |-> r.invoked,
                                 raised |-> r.raised]>>
    /\ UNCHANGED eb_kind
    /\ UNCHANGED ebRest

EbNext ==
    \/ EbSubscribe
    \/ EbUnsubscribe
    \/ EbEmit

EbIdle ==
    /\ eb_kind = "utils"
    /\ eb_handlers = [e \in Events |-> <<>>]
    /\ eb_removed = [e \in Events |-> {}]
    /\ eb_calls = 0
    /\ eb_log = <<>>

\* C38: emit(event) invokes every handler subscribed to the event when it
\* is emitted, whatever the handlers do, and nothing a handler raises
\* reaches the emitter; with no subscribers it invokes nothing
C38_EmitReachesEveryHandler ==
    eb_log # <<>> =>
        /\ SeqRange(eb_log[1].before) \subseteq SeqRange(eb_log[1].invoked)
        /\ ~eb_log[1].raised
        /\ eb_log[1].before = <<>> => eb_log[1].invoked = <<>>

\* what does hold: when no subscribed handler unsubscribes while the event
\* is emitted, each is invoked once per subscription and emit returns,
\* whichever of them raise
EmitIsolatesRaisingHandlers ==
    (/\ eb_log # <<>>
     /\ \A h \in SeqRange(eb_log[1].before) : eb_log[1].beh[h] # "unsubscribes") =>
        /\ Len(eb_log[1].invoked) = Len(eb_log[1].before)
        /\ SeqRange(eb_log[1].invoked) = SeqRange(eb_log[1].before)
        /\ ~eb_log[1].raised

\* C39: on core.utils.event_bus.EventBus, a handler unsubscribed from an
\* event and not subscribed to it again since is not invoked by a later
\* emit of the event, however often it had been subscribed before
C39_UnsubscribedHandlerNotInvoked ==
    (eb_kind = "utils" /\ eb_log # <<>>) =>
        SeqRange(eb_log[1].invoked) \cap eb_log[1].removed = {}

\* what does hold: the set-based bus of core.modules.base never invokes an
\* unsubscribed callback
BaseUnsubscribedHandlerNotInvoked ==
    (eb_kind = "base" /\ eb_log # <<>>) =>
        SeqRange(eb_log[1].invoked) \cap eb_log[1].removed = {}


\* ---------------------------------------------------------------------
\* DistributedExecutor (core/utils/distributed.py)
\* ---------------------------------------------------------------------
MaxDxTasks == 1       \* submit_task calls per behaviour
MaxDxTicks == 3       \* the clock stops after so many monitor periods

MonitorSleep == 30        \* asyncio.sleep(30) of the worker monitor
HeartbeatTimeout == 60    \* seconds without heartbeat after which a worker is dead

DxWorkers == {"w1", "w2"}

DxTools == {"t1", "t2"}

\* the capabilities each worker registers with
DxCapabilities == [w1 |-> {"t1"}, w2 |-> {"t1", "t2"}]

\* the clock counts monitor periods
Seconds(ticks) == ticks * MonitorSleep

\* position of worker id in self.workers (a dict, in insertion order), or 0
WorkerIndex(workers, id) ==
    IF \E i \in 1..Len(workers) : workers[i].id = id
    THEN CHOOSE i \in 1..Len(workers) : workers[i].id = id
    ELSE 0

\* available_workers of _schedule_task: positions of the idle workers that
\* have the tool
AvailableWorkers(workers, tool) ==
    {i \in 1..Len(workers) :
        workers[i].status = "idle" /\ tool \in workers[i].capabilities}

\* dead_workers of _check_workers
DeadWorkers(workers, current_time) ==
    {i \in 1..Len(workers) :
        Seconds(current_time - workers[i].last_heartbeat) > HeartbeatTimeout}

\* del self.workers[worker_id] for every dead worker
RECURSIVE WithoutWorkers(_, _, _)
WithoutWorkers(workers, dead, i) ==
    IF i > Len(workers) THEN <<>>
    ELSE (IF i \in dead THEN <<>> ELSE <<workers[i]>>)
         \o WithoutWorkers(workers, dead, i + 1)

DxInit ==
    /\ dx_pc = "new"
    /\ dx_sched = "off"
    /\ dx_workers = <<>>
    /\ dx_tasks = <<>>
    /\ dx_queue = <<>>
    /\ dx_clock = 0
    /\ dx_wake = 0

\* register_worker(worker_id, address, capabilities); it waits for
\* _worker_lock, which _schedule_task holds while a task executes
DxRegisterWorker ==
    /\ dx_sched # "executing"
    /\ \E id \in DxWorkers :
          LET w == [id |-> id, capabilities |-> DxCapabilities[id],
                    status |-> "idle",
                    last_heartbeat |-> dx_clock, current_task |-> 0]
              i == WorkerIndex(dx_workers, id)
          IN  dx_workers' = IF i = 0 THEN Append(dx_workers, w)
                            ELSE [dx_workers EXCEPT ![i] = w]
    /\ UNCHANGED <<dx_pc, dx_sched, dx_tasks, dx_queue, dx_clock, dx_wake>>
    /\ UNCHANGED dxRest

\* submit_task(module, tool, params): the task is recorded as pending and
\* queued; promised notes whether start() had been called and an idle
\* registered worker had the tool when it was submitted
DxSubmitTask ==
    /\ Len(dx_tasks) < MaxDxTasks
    /\ \E tool \in DxTools :
          /\ dx_tasks' = Append(dx_tasks,
                 [tool |-> tool, status |-> "pending", worker_id |-> NONE,
                  promised |-> /\ dx_pc # "new"
                               /\ AvailableWorkers(dx_workers, tool) # {}])
          /\ dx_queue' = Append(dx_queue, Len(dx_tasks) + 1)
    /\ UNCHANGED <<dx_pc, dx_sched, dx_workers, dx_clock, dx_wake>>
    /\ UNCHANGED dxRest

\* start() is called: it awaits _start_worker_monitor(), whose while True
\* loop ends only by an exception that ends start() as well, so the call of
\* _start_task_scheduler() on the next line is never reached
DxStart ==
    /\ dx_pc = "new"
    /\ dx_pc' = "check"
    /\ UNCHANGED <<dx_sched, dx_workers, dx_tasks, dx_queue, dx_clock, dx_wake>>
    /\ UNCHANGED dxRest

\* one round of _start_worker_monitor: _check_workers under the lock, then
\* asyncio.sleep(30).  No worker has a current_task while the lock is free,
\* so _reschedule_task is not called.  The loop goes on when the clock has
\* stopped: the sleep then ends at the time the clock shows
DxCheckWorkers ==
    /\ dx_pc = "check"
    /\ dx_sched # "executing"
    /\ dx_workers' = WithoutWorkers(dx_workers,
                                    DeadWorkers(dx_workers, dx_clock), 1)
    /\ dx_pc' = "sleep"
    /\ dx_wake' = IF dx_clock < MaxDxTicks THEN dx_clock + 1 ELSE dx_clock
    /\ UNCHANGED <<dx_sched, dx_tasks, dx_queue, dx_clock>>
    /\ UNCHANGED dxRest

\* the sleep of the monitor ends
DxWake ==
    /\ dx_pc = "sleep"
    /\ dx_clock >= dx_wake
    /\ dx_pc' = "check"
    /\ UNCHANGED <<dx_sched, dx_workers, dx_tasks, dx_queue, dx_clock, dx_wake>>
    /\ UNCHANGED dxRest

\* time passes
DxTick ==
    /\ dx_clock < MaxDxTicks
    /\ dx_clock' = dx_clock + 1
    /\ UNCHANGED <<dx_pc, dx_sched, dx_workers, dx_tasks, dx_queue, dx_wake>>
    /\ UNCHANGED dxRest

\* a caller runs _start_task_scheduler() itself
DxStartTaskScheduler ==
    /\ dx_sched = "off"
    /\ dx_sched' = "get"
    /\ UNCHANGED <<dx_pc, dx_workers, dx_tasks, dx_queue, dx_clock, dx_wake>>
    /\ UNCHANGED dxRest

\* one round of _start_task_scheduler: a task is taken from the queue and
\* _schedule_task puts it back when no worker is available, else marks the
\* first available worker busy and the task running and posts the task to
\* the worker, keeping the lock
DxScheduleTask ==
    /\ dx_sched = "get"
    /\ dx_queue # <<>>
    /\ LET t == Head(dx_queue)
           available == AvailableWorkers(dx_workers, dx_tasks[t].tool)
       IN  IF available = {}
           THEN /\ dx_queue' = Append(Tail(dx_queue), t)
                /\ UNCHANGED <<dx_sched, dx_workers, dx_tasks>>
           ELSE LET i == CHOOSE k \in available : \A j \in available : k <= j
                IN  /\ dx_queue' = Tail(dx_queue)
                    /\ dx_workers' = [dx_workers EXCEPT
                                        ![i].status = "busy",
                                        ![i].current_task = t]
                    /\ dx_tasks' = [dx_tasks EXCEPT
                                      ![t].status = "running",
                                      ![t].worker_id = dx_workers[i].id]
                    /\ dx_sched' = "executing"
    /\ UNCHANGED <<dx_pc, dx_clock, dx_wake>>
    /\ UNCHANGED dxRest

\* _execute_on_worker ends: the response arrived and the task is completed,
\* or the request raised and _schedule_task marks the task failed; the
\* worker is idle again
DxExecuteOnWorker ==
    /\ dx_sched = "executing"
    /\ \E outcome \in {"completed", "failed"} :
          LET i == CHOOSE k \in 1..Len(dx_workers) : dx_workers[k].status = "busy"
              t == dx_workers[i].current_task
          IN  /\ dx_tasks' = [dx_tasks EXCEPT ![t].status = outcome]
              /\ dx_workers' = [dx_workers EXCEPT ![i].status = "idle",
                                                 ![i].current_task = 0]
    /\ dx_sched' = "get"
    /\ UNCHANGED <<dx_pc, dx_queue, dx_clock, dx_wake>>
    /\ UNCHANGED dxRest

DxNext ==
    \/ DxRegisterWorker
    \/ DxSubmitTask
    \/ DxStart
    \/ DxCheckWorkers
    \/ DxWake
    \/ DxTick
    \/ DxStartTaskScheduler
    \/ DxScheduleTask
    \/ DxExecuteOnWorker

\* the event loop runs every coroutine that can go on, and time passes
DxFairness ==
    /\ WF_vars(DxCheckWorkers)
    /\ WF_vars(DxWake)
    /\ WF_vars(DxTick)
    /\ WF_vars(DxScheduleTask)
    /\ WF_vars(DxExecuteOnWorker)

DxIdle == DxInit

TaskDone(t) ==
    /\ t <= Len(dx_tasks)
    /\ dx_tasks[t].status \in {"completed", "failed"}

TaskPromised(t) ==
    /\ t <= Len(dx_tasks)
    /\ dx_tasks[t].promised

\* C40: once start() has been called, every task submitted while an idle
\* registered worker has the task's tool is eventually assigned to such a
\* worker and reaches status completed or failed
C40_PromisedTaskEventuallyDone ==
    \A t \in 1..MaxDxTasks : TaskPromised(t) ~> TaskDone(t)

\* what does hold: as long as no caller runs the scheduler itself, every
\* task stays pending and unassigned, and the queue keeps them all
StartAloneLeavesTasksPending ==
    dx_sched = "off" =>
        /\ \A t \in 1..Len(dx_tasks) :
              dx_tasks[t].status = "pending" /\ dx_tasks[t].worker_id = NONE
        /\ Len(dx_queue) = Len(dx_tasks)

\* a promised task waits while start() is all that runs
PromisedTaskWaiting ==
    /\ dx_pc = "sleep"
    /\ dx_sched = "off"
    /\ dx_clock = MaxDxTicks
    /\ TaskPromised(1)
    /\ AvailableWorkers(dx_workers, dx_tasks[1].tool) # {}

LateIdle == ClIdle /\ TrIdle /\ SsIdle /\ EbIdle /\ DxIdle

ExtIdle == XtIdle /\ MgIdle /\ MonIdle /\ VtIdle /\ LateIdle

UtilIdle == CacheIdle /\ SmIdle /\ EtIdle /\ ExtIdle

\* the orchestrator
Init == FwInit /\ RlIdle /\ RtIdle /\ UtilIdle

Next == FwNext

Spec == Init /\ [][Next]_vars

\* one RateLimiter shared by the tasks of a module
InitRL == RlInit /\ FwIdle /\ RtIdle /\ UtilIdle

NextRL == RlNext

SpecRL == InitRL /\ [][NextRL]_vars

\* the same limiter in runs of any length, under fair scheduling
InitRLLive == InitRL

NextRLLive == LvNext

SpecRLLive == InitRLLive /\ [][NextRLLive]_vars /\ LvFairness

\* one call of run_with_retry
InitRetry == RtInit /\ FwIdle /\ RlIdle /\ UtilIdle

NextRetry == RtNext

SpecRetry == InitRetry /\ [][NextRetry]_vars

\* one ResultCache shared by concurrent tasks
InitCache == CacheInit /\ FwIdle /\ RlIdle /\ RtIdle /\ SmIdle /\ EtIdle /\ ExtIdle

NextCache == CacheNext

SpecCache == InitCache /\ [][NextCache]_vars

\* one output directory and the SessionManagers working on it in turn
InitSession == SmInit /\ FwIdle /\ RlIdle /\ RtIdle /\ CacheIdle /\ EtIdle /\ ExtIdle

NextSession == SmNext

SpecSession == InitSession /\ [][NextSession]_vars

\* the same, with archive_session among the calls
NextArchive == SmNext \/ SmArchiveSession

SpecArchive == InitSession /\ [][NextArchive]_vars

\* the execute_tool calls of one module, one after the other
InitTool == EtInit /\ FwIdle /\ RlIdle /\ RtIdle /\ CacheIdle /\ SmIdle /\ ExtIdle

NextTool == EtNext

SpecTool == InitTool /\ [][NextTool]_vars

\* the tasks of a module running tools through one ToolExecutor
InitExec == XtLimiterInit /\ XtInit /\ FwIdle /\ RtIdle /\ CacheIdle /\ SmIdle /\ EtIdle
            /\ MgIdle /\ MonIdle /\ VtIdle /\ LateIdle

NextExec == XtNext

SpecExec == InitExec /\ [][NextExec]_vars

\* one run of the discovery module
InitMerge == MgInit /\ FwIdle /\ RlIdle /\ RtIdle /\ CacheIdle /\ SmIdle /\ EtIdle
             /\ XtIdle /\ MonIdle /\ VtIdle /\ LateIdle

NextMerge == MgNext

SpecMerge == InitMerge /\ [][NextMerge]_vars

\* one PerformanceMonitor and the per-module operations called on it
InitMonitor == MonInit /\ FwIdle /\ RlIdle /\ RtIdle /\ CacheIdle /\ SmIdle /\ EtIdle
               /\ XtIdle /\ MgIdle /\ VtIdle /\ LateIdle

NextMonitor == MonNext

SpecMonitor == InitMonitor /\ [][NextMonitor]_vars

\* one PerformanceMonitor and the per-tool operations called on it
InitToolMetrics == InitMonitor

NextToolMetrics == TmNext

SpecToolMetrics == InitToolMetrics /\ [][NextToolMetrics]_vars

\* one requirement table verified by the framework and by the tool checker
InitVerify == VtInit /\ FwIdle /\ RlIdle /\ RtIdle /\ CacheIdle /\ SmIdle /\ EtIdle
              /\ XtIdle /\ MgIdle /\ MonIdle /\ LateIdle

NextVerify == VtNext

SpecVerify == InitVerify /\ [][NextVerify]_vars

\* the end of one Framework.start
InitCleanup == ClInit /\ EarlyIdle /\ TrIdle /\ SsIdle /\ EbIdle /\ DxIdle

NextCleanup == ClNext

SpecCleanup == InitCleanup /\ [][NextCleanup]_vars

InitToolRetry == TrInit /\ EarlyIdle /\ ClIdle /\ SsIdle /\ EbIdle /\ DxIdle

NextToolRetry == TrNext

SpecToolRetry == InitToolRetry /\ [][NextToolRetry]_vars

InitShouldRun == SsInit /\ EarlyIdle /\ ClIdle /\ TrIdle /\ EbIdle /\ DxIdle

NextShouldRun == SsNext

SpecShouldRun == InitShouldRun /\ [][NextShouldRun]_vars

InitEventBus == EbInit /\ EarlyIdle /\ ClIdle /\ TrIdle /\ SsIdle /\ DxIdle

NextEventBus == EbNext

SpecEventBus == InitEventBus /\ [][NextEventBus]_vars

InitDistributed == DxInit /\ EarlyIdle /\ ClIdle /\ TrIdle /\ SsIdle /\ EbIdle

NextDistributed == DxNext

SpecDistributed == InitDistributed /\ [][NextDistributed]_vars

\* the same executor under fair scheduling of its coroutines
SpecDistributedLive == SpecDistributed /\ DxFairness
====
